---- MODULE Spec2Model ----
(***************************************************************************)
(* Model of the food data service of MemoexCode/Tiles:                     *)
(*   src/services/usdaService.ts (class USDAService, lines 127-368:        *)
(*   getFoodDetails, searchFoods, withRetry, isCacheValid, saveToCache)    *)
(*   and the normalizer (src/unnamed/part_000, lines 127-336:              *)
(*   normalizeFoodItem and normalizeTilesFoodDetailsRow), the FoodDetails  *)
(*   component (src/components/FoodDetails.tsx, lines 274-305) and the     *)
(*   earlier object-literal usdaService with its standalone withRetry      *)
(*   (src/unnamed/part_002, lines 13-112).                                 *)
(*                                                                         *)
(* Conventions.  An optional JavaScript value (undefined / null or a       *)
(* value) is a set with at most one element: {} is undefined, {v} is v.    *)
(* A string that the code inspects character by character is a sequence    *)
(* of one-character strings.  Nutrient quantities are integers counting    *)
(* thousandths, so that rounding to two decimals is visible.  An instant   *)
(* is a record [day, ms] (whole days and milliseconds within the day).     *)
(***************************************************************************)
EXTENDS Integers, Sequences, FiniteSets, TLC

VARIABLES
    req,        \* per request slot: the local state of one call of the service
    store,      \* rows of the table usda_food_raw
    now,        \* the wall clock, [day, ms]
    applied,    \* history: per identifier, the upserts the store applied, in order
    ticks,      \* history: number of clock advances so far
    fn,         \* one application of a pure function: its argument and result
    view        \* the state of the FoodDetails component

vars == <<req, store, now, applied, ticks, fn, view>>

(***************************************************************************)
(* Bounds of the model.                                                    *)
(***************************************************************************)
MaxTicks == 1          \* clock advances in one behaviour

Req == {"r1", "r2"}    \* calls of the service in one behaviour, each made once
Ids == {1, 2}          \* food identifiers requested

(***************************************************************************)
(* Program constants.                                                      *)
(***************************************************************************)
CACHE_TTL_DAYS == 30
DEFAULT_RETRIES == 3
MS_PER_DAY == 86400000
ENERGY_KCAL == 1008
ENERGY_ATWATER_GENERAL == 2047
ENERGY_ATWATER_SPECIFIC == 2048
PROTEIN == 1003
TOTAL_LIPID_FAT == 1004
CARBOHYDRATE_BY_DIFF == 1005
FIBER_TOTAL_DIETARY == 1079
SUGARS_TOTAL == 2000
SODIUM == 1093

(***************************************************************************)
(* Optional values.                                                        *)
(***************************************************************************)
Undefined == {}
Some(v) == {v}
IsDefined(o) == o # {}
The(o) == CHOOSE v \in o : TRUE

(***************************************************************************)
(* Strings as character sequences.                                         *)
(***************************************************************************)
Str_food == <<"f", "o", "o", "d">>
Str_Einheit == <<"E", "i", "n", "h", "e", "i", "t">>
Str_Unknown == <<"U", "n", "k", "n", "o", "w", "n">>

ToLowerChar(c) ==
    CASE c = "A" -> "a"
      [] c = "B" -> "b"
      [] c = "C" -> "c"
      [] OTHER -> c

IsSpaceChar(c) == c = " "

RECURSIVE BeforeComma(_)
BeforeComma(s) ==
    IF s = <<>> \/ Head(s) = "," THEN <<>>
    ELSE <<Head(s)>> \o BeforeComma(Tail(s))

RECURSIVE TrimLeft(_)
TrimLeft(s) ==
    IF s # <<>> /\ IsSpaceChar(Head(s)) THEN TrimLeft(Tail(s)) ELSE s

RECURSIVE TrimRight(_)
TrimRight(s) ==
    IF s # <<>> /\ IsSpaceChar(s[Len(s)])
    THEN TrimRight(SubSeq(s, 1, Len(s) - 1))
    ELSE s

Trim(s) == TrimRight(TrimLeft(s))

ToLowerCase(s) == [k \in 1..Len(s) |-> ToLowerChar(s[k])]

\* generateVisualParent without the trim.
generateVisualParent_Untrimmed(description) ==
    IF ~IsDefined(description) \/ The(description) = <<>>
    THEN Str_food
    ELSE ToLowerCase(BeforeComma(The(description)))

\* generateVisualParent: description is optional (missing or a string).
generateVisualParent(description) ==
    IF ~IsDefined(description) \/ The(description) = <<>>
    THEN Str_food
    ELSE ToLowerCase(Trim(BeforeComma(The(description))))

(***************************************************************************)
(* Nutrient resolver.                                                      *)
(*   A nutrient entry is [nutrientId, nutrient, amount, value], each       *)
(*   optional; nutrient, when present, is [id |-> n].                      *)
(***************************************************************************)
\* Math.round(val * 100) / 100 on thousandths (Math.round rounds half up).
Round2(v) == ((v + 5) \div 10) * 10

\* The predicate given to foodNutrients.find for one target identifier.
MatchesTarget(n, targetId) ==
    \/ n.nutrientId = Some(targetId)
    \/ (IsDefined(n.nutrient) /\ The(n.nutrient).id = targetId)

\* Array.prototype.find: the first entry of the list that matches, if any.
FindNutrient(list, targetId) ==
    LET hits == {k \in 1..Len(list) : MatchesTarget(list[k], targetId)}
    IN  IF hits = {} THEN Undefined
        ELSE Some(list[CHOOSE k \in hits : \A j \in hits : k <= j])

\* The value returned for a matched entry.
EntryValue(n) ==
    LET val == IF IsDefined(n.amount) THEN n.amount ELSE n.value
    IN  IF IsDefined(val) /\ The(val) # 0 THEN Round2(The(val)) ELSE 0

\* getValue, on the nutrient list of the food and the ordered candidate list.
RECURSIVE getValueFrom(_, _)
getValueFrom(list, ids) ==
    IF ids = <<>> THEN 0
    ELSE LET nutrientItem == FindNutrient(list, Head(ids))
         IN  IF IsDefined(nutrientItem) THEN EntryValue(The(nutrientItem))
             ELSE getValueFrom(list, Tail(ids))

\* getValue walking the record: the first entry that matches any candidate.
getValue_RecordOrder(food, possibleIds) ==
    LET list == The(food.foodNutrients)
        hits == {k \in 1..Len(list) :
                    \E j \in 1..Len(possibleIds) : MatchesTarget(list[k], possibleIds[j])}
    IN  IF hits = {} THEN 0
        ELSE EntryValue(list[CHOOSE k \in hits : \A j \in hits : k <= j])

\* getValue going on to the next candidate when the matched value is 0.
getValue_SkippingZero(food, possibleIds) ==
    LET list == The(food.foodNutrients)
        good == {j \in 1..Len(possibleIds) :
                    /\ IsDefined(FindNutrient(list, possibleIds[j]))
                    /\ EntryValue(The(FindNutrient(list, possibleIds[j]))) # 0}
    IN  IF good = {} THEN 0
        ELSE EntryValue(The(FindNutrient(list,
                 possibleIds[CHOOSE j \in good : \A i \in good : j <= i])))

\* getValue falling back to the first entry of the record when nothing matches.
getValue_DefaultFirst(food, possibleIds) ==
    LET list == The(food.foodNutrients)
    IN  IF list # <<>> /\ \A j \in 1..Len(possibleIds) :
                              ~IsDefined(FindNutrient(list, possibleIds[j]))
        THEN EntryValue(list[1])
        ELSE getValueFrom(list, possibleIds)

\* getValue(food, possibleIds); defined when food.foodNutrients is a list.
getValue(food, possibleIds) == getValueFrom(The(food.foodNutrients), possibleIds)

\* food.foodNutrients.find(...) on a missing list raises a TypeError.
getValueThrows(food) == ~IsDefined(food.foodNutrients)

(***************************************************************************)
(* Portion normalizer.                                                     *)
(*   A raw portion is [id, amount, gramWeight, portionDescription,         *)
(*   modifier, measureUnit]; the three labels are optional strings.        *)
(***************************************************************************)
Truthy(o) == IsDefined(o) /\ The(o) # <<>>

\* normalizeFoodPortion with the measure unit's name ahead of the modifier.
normalizeFoodPortion_UnitFirst(p) ==
    LET unitDescription ==
            IF Truthy(p.portionDescription) THEN The(p.portionDescription)
            ELSE IF Truthy(p.measureUnit) THEN The(p.measureUnit)
            ELSE IF Truthy(p.modifier) THEN The(p.modifier)
            ELSE Str_Einheit
    IN  [id |-> p.id, amount |-> p.amount, gramWeight |-> p.gramWeight,
         unitDescription |-> unitDescription]

normalizeFoodPortion(p) ==
    LET unitDescription ==
            IF Truthy(p.portionDescription) THEN The(p.portionDescription)
            ELSE IF Truthy(p.modifier) THEN The(p.modifier)
            ELSE IF Truthy(p.measureUnit) THEN The(p.measureUnit)
            ELSE Str_Einheit
    IN  [id |-> p.id, amount |-> p.amount, gramWeight |-> p.gramWeight,
         unitDescription |-> unitDescription]

\* The earlier normalizer revision, which ignores the modifier.
normalizeFoodPortionV1(p) ==
    LET unitDescription ==
            IF Truthy(p.portionDescription) THEN The(p.portionDescription)
            ELSE IF Truthy(p.measureUnit) THEN The(p.measureUnit)
            ELSE Str_Einheit
    IN  [id |-> p.id, amount |-> p.amount, gramWeight |-> p.gramWeight,
         unitDescription |-> unitDescription]

(***************************************************************************)
(* Food normalizer.                                                        *)
(*   A raw food is [fdcId, description, dataType, publicationDate,         *)
(*   foodNutrients, foodPortions, foodCategory]; description, the two      *)
(*   lists and the category are optional.                                  *)
(***************************************************************************)
EnergyIds == <<ENERGY_KCAL, ENERGY_ATWATER_SPECIFIC, ENERGY_ATWATER_GENERAL>>

\* normalizeFoodItem; defined when it does not throw.
normalizeFoodItem(food) ==
    [fdcId |-> food.fdcId,
     description |-> food.description,
     dataType |-> food.dataType,
     publicationDate |-> food.publicationDate,
     energy_kcal |-> getValue(food, EnergyIds),
     protein_g |-> getValue(food, <<PROTEIN>>),
     fat_g |-> getValue(food, <<TOTAL_LIPID_FAT>>),
     carbs_g |-> getValue(food, <<CARBOHYDRATE_BY_DIFF>>),
     sugar_g |-> getValue(food, <<SUGARS_TOTAL>>),
     fiber_g |-> getValue(food, <<FIBER_TOTAL_DIETARY>>),
     sodium_mg |-> getValue(food, <<SODIUM>>),
     visual_parent |-> generateVisualParent(food.description),
     category |-> IF IsDefined(food.foodCategory) /\ The(food.foodCategory).description # <<>>
                  THEN The(food.foodCategory).description ELSE Str_Unknown,
     category_code |-> IF IsDefined(food.foodCategory)
                       THEN The(food.foodCategory).code ELSE <<>>,
     portions |-> IF IsDefined(food.foodPortions)
                  THEN [k \in 1..Len(The(food.foodPortions)) |->
                            normalizeFoodPortion(The(food.foodPortions)[k])]
                  ELSE <<>>,
     foodNutrients |-> IF IsDefined(food.foodNutrients)
                       THEN The(food.foodNutrients) ELSE <<>>]

\* What the earlier normalizer revision wrote into the store: the same fields,
\* with the portions mapped by the earlier portion normalizer.
normalizeFoodItemV1(food) ==
    [normalizeFoodItem(food) EXCEPT !.portions =
        IF IsDefined(food.foodPortions)
        THEN [k \in 1..Len(The(food.foodPortions)) |->
                  normalizeFoodPortionV1(The(food.foodPortions)[k])]
        ELSE <<>>]

\* The first getValue call of normalizeFoodItem throws on a missing list.
normalizeFoodItemThrows(food) == getValueThrows(food)

(***************************************************************************)
(* Search-index normalizer (normalizeTilesFoodDetailsRow).                 *)
(*   A row is [default_fdc_id, primary_label, canonical_name,              *)
(*   usda_data_type, default_dataset, food_category, nutrients, portions]; *)
(*   all but the identifier are optional.  An entry of nutrients is        *)
(*   [nutrientNumber, nutrientName, unitName, amount] and an entry of      *)
(*   portions [portionId, amount, gramWeight, portionDescription,          *)
(*   measureUnitName, modifier], every field optional.                     *)
(***************************************************************************)
Str_portion == <<"p", "o", "r", "t", "i", "o", "n">>
Str_UnknownFood == <<"U", "n", "k", "n", "o", "w", "n", " ", "F", "o", "o", "d">>
Str_TilesDB == <<"T", "i", "l", "e", "s", "D", "B">>

IsDigit(c) == c \in {"0", "1", "2", "3", "4", "5", "6", "7", "8", "9"}

DigitValue(c) ==
    CASE c = "0" -> 0 [] c = "1" -> 1 [] c = "2" -> 2 [] c = "3" -> 3
      [] c = "4" -> 4 [] c = "5" -> 5 [] c = "6" -> 6 [] c = "7" -> 7
      [] c = "8" -> 8 [] c = "9" -> 9

\* The value of the leading digits of s, continuing from acc.
RECURSIVE LeadingDigits(_, _)
LeadingDigits(s, acc) ==
    IF s = <<>> \/ ~IsDigit(Head(s)) THEN acc
    ELSE LeadingDigits(Tail(s), 10 * acc + DigitValue(Head(s)))

\* parseInt(s): leading white space is skipped, then an optional minus sign
\* and the longest run of digits are read; without a digit the result is
\* NaN, here the empty option.
parseInt(s) ==
    LET t == TrimLeft(s)
        neg == t # <<>> /\ Head(t) = "-"
        u == IF neg THEN Tail(t) ELSE t
    IN  IF u = <<>> \/ ~IsDigit(Head(u)) THEN Undefined
        ELSE Some(IF neg THEN 0 - LeadingDigits(u, 0) ELSE LeadingDigits(u, 0))

\* One entry of rawNutrients.map(...).
TilesNutrient(n) ==
    LET nutrientId == IF Truthy(n.nutrientNumber)
                      THEN parseInt(The(n.nutrientNumber)) ELSE Some(0)
    IN  [id |-> 0,
         nutrientId |-> nutrientId,
         nutrientNumber |-> n.nutrientNumber,
         nutrientName |-> n.nutrientName,
         unitName |-> n.unitName,
         value |-> n.amount,
         amount |-> n.amount,
         nutrient |-> [id |-> nutrientId, number |-> n.nutrientNumber,
                       name |-> n.nutrientName, rank |-> 0,
                       unitName |-> n.unitName]]

TilesNutrients(row) ==
    IF IsDefined(row.nutrients)
    THEN [k \in 1..Len(The(row.nutrients)) |-> TilesNutrient(The(row.nutrients)[k])]
    ELSE <<>>

\* mapIdToNumber[num]: the nutrient number of an identifier, if it has one.
mapIdToNumber(num) ==
    CASE num = ENERGY_KCAL -> Some(<<"2", "0", "8">>)
      [] num = PROTEIN -> Some(<<"2", "0", "3">>)
      [] num = TOTAL_LIPID_FAT -> Some(<<"2", "0", "4">>)
      [] num = CARBOHYDRATE_BY_DIFF -> Some(<<"2", "0", "5">>)
      [] num = SUGARS_TOTAL -> Some(<<"2", "6", "9">>)
      [] num = FIBER_TOTAL_DIETARY -> Some(<<"2", "9", "1">>)
      [] num = SODIUM -> Some(<<"3", "0", "7">>)
      [] num = ENERGY_ATWATER_GENERAL -> Some(<<"9", "5", "7">>)
      [] num = ENERGY_ATWATER_SPECIFIC -> Some(<<"9", "5", "8">>)
      [] OTHER -> Undefined

\* Array.prototype.find over the mapped list, for a predicate given as the
\* set of positions it accepts.
FirstAt(list, hits) ==
    IF hits = {} THEN Undefined
    ELSE Some(list[CHOOSE k \in hits : \A j \in hits : k <= j])

\* x || 0 for an optional number.
OrZero(x) == IF IsDefined(x) /\ The(x) # 0 THEN The(x) ELSE 0

\* getVal passing on to the search by identifier when the entry found by
\* number has no amount or a zero one.
getVal_ZeroFallsThrough(foodNutrients, num) ==
    LET targetNum == mapIdToNumber(num)
        found == IF IsDefined(targetNum)
                 THEN FirstAt(foodNutrients,
                              {k \in 1..Len(foodNutrients) :
                                  foodNutrients[k].nutrientNumber = targetNum})
                 ELSE Undefined
        foundById == FirstAt(foodNutrients,
                             {k \in 1..Len(foodNutrients) :
                                 foodNutrients[k].nutrientId = Some(num)})
    IN  IF IsDefined(found) /\ OrZero(The(found).amount) # 0
        THEN OrZero(The(found).amount)
        ELSE IF IsDefined(foundById) THEN OrZero(The(foundById).amount)
        ELSE 0

\* getVal(num) of normalizeTilesFoodDetailsRow, over the mapped list.
getVal(foodNutrients, num) ==
    LET targetNum == mapIdToNumber(num)
        found == IF IsDefined(targetNum)
                 THEN FirstAt(foodNutrients,
                              {k \in 1..Len(foodNutrients) :
                                  foodNutrients[k].nutrientNumber = targetNum})
                 ELSE Undefined
        foundById == FirstAt(foodNutrients,
                             {k \in 1..Len(foodNutrients) :
                                 foodNutrients[k].nutrientId = Some(num)})
    IN  IF IsDefined(found) THEN OrZero(The(found).amount)
        ELSE IF IsDefined(foundById) THEN OrZero(The(foundById).amount)
        ELSE 0

\* a || b || c || d for three optional strings and a literal.
FirstTruthy(a, b, c, d) ==
    IF Truthy(a) THEN The(a)
    ELSE IF Truthy(b) THEN The(b)
    ELSE IF Truthy(c) THEN The(c)
    ELSE d

\* One entry of the mapped portion list.
TilesPortion(p) ==
    [id |-> OrZero(p.portionId),
     amount |-> OrZero(p.amount),
     gramWeight |-> OrZero(p.gramWeight),
     unitDescription |->
         FirstTruthy(p.portionDescription, p.measureUnitName, p.modifier, Str_portion)]

\* let energy = getVal(specific); if (!energy) ... general; if (!energy) ... kcal
TilesEnergy(foodNutrients) ==
    LET specific == getVal(foodNutrients, ENERGY_ATWATER_SPECIFIC)
        general == IF specific = 0
                   THEN getVal(foodNutrients, ENERGY_ATWATER_GENERAL) ELSE specific
    IN  IF general = 0 THEN getVal(foodNutrients, ENERGY_KCAL) ELSE general

normalizeTilesFoodDetailsRow(row) ==
    LET description == FirstTruthy(row.primary_label, row.canonical_name,
                                   Undefined, Str_UnknownFood)
        foodNutrients == TilesNutrients(row)
        portions == IF IsDefined(row.portions)
                    THEN [k \in 1..Len(The(row.portions)) |->
                              TilesPortion(The(row.portions)[k])]
                    ELSE <<>>
    IN  [fdcId |-> row.default_fdc_id,
         description |-> description,
         dataType |-> FirstTruthy(row.usda_data_type, row.default_dataset,
                                  Undefined, Str_TilesDB),
         publicationDate |-> <<>>,
         energy_kcal |-> TilesEnergy(foodNutrients),
         protein_g |-> getVal(foodNutrients, PROTEIN),
         fat_g |-> getVal(foodNutrients, TOTAL_LIPID_FAT),
         carbs_g |-> getVal(foodNutrients, CARBOHYDRATE_BY_DIFF),
         sugar_g |-> getVal(foodNutrients, SUGARS_TOTAL),
         fiber_g |-> getVal(foodNutrients, FIBER_TOTAL_DIETARY),
         sodium_mg |-> getVal(foodNutrients, SODIUM),
         visual_parent |-> IF Truthy(row.canonical_name) THEN The(row.canonical_name)
                           ELSE generateVisualParent(Some(description)),
         category |-> FirstTruthy(row.food_category, Undefined, Undefined, <<>>),
         category_code |-> <<>>,
         portions |-> portions,
         foodNutrients |-> foodNutrients]

(***************************************************************************)
(* Cache policy.                                                            *)
(*   A timestamp string is [ok, day, ms]: ok = FALSE is a string that      *)
(*   new Date(...) does not parse (getTime() is NaN).                      *)
(***************************************************************************)
\* new Date().toISOString()
toISOString(t) == [ok |-> TRUE, day |-> t.day, ms |-> t.ms]

Earlier(a, b) == a.day < b.day \/ (a.day = b.day /\ a.ms <= b.ms)

\* Math.abs(a - b) for two instants, as [day, ms] with 0 <= ms < MS_PER_DAY.
AbsDiff(a, b) ==
    LET lo == IF Earlier(a, b) THEN a ELSE b
        hi == IF Earlier(a, b) THEN b ELSE a
    IN  IF hi.ms >= lo.ms
        THEN [day |-> hi.day - lo.day, ms |-> hi.ms - lo.ms]
        ELSE [day |-> hi.day - lo.day - 1, ms |-> hi.ms - lo.ms + MS_PER_DAY]

\* Math.ceil(diffTime / (1000 * 60 * 60 * 24))
CeilDays(d) == d.day + (IF d.ms > 0 THEN 1 ELSE 0)

\* The freshness test on the signed difference, without Math.abs.
isCacheValid_Signed(fetchedAt, t) ==
    IF ~fetchedAt.ok THEN FALSE
    ELSE IF Earlier(t, [day |-> fetchedAt.day, ms |-> fetchedAt.ms]) THEN TRUE
    ELSE CeilDays(AbsDiff(t, [day |-> fetchedAt.day, ms |-> fetchedAt.ms]))
            <= CACHE_TTL_DAYS

\* The freshness test with the boundary excluded (diffDays < TTL).
isCacheValid_ExclusiveBoundary(fetchedAt, t) ==
    IF ~fetchedAt.ok THEN FALSE
    ELSE CeilDays(AbsDiff(t, [day |-> fetchedAt.day, ms |-> fetchedAt.ms]))
            < CACHE_TTL_DAYS

\* The freshness test written as !(diffDays > TTL): NaN > 30 is false too.
isCacheValid_NaNPasses(fetchedAt, t) ==
    IF ~fetchedAt.ok THEN TRUE
    ELSE CeilDays(AbsDiff(t, [day |-> fetchedAt.day, ms |-> fetchedAt.ms]))
            <= CACHE_TTL_DAYS

\* isCacheValid(fetchedAt) evaluated at clock value t; NaN <= 30 is false.
isCacheValid(fetchedAt, t) ==
    IF ~fetchedAt.ok THEN FALSE
    ELSE CeilDays(AbsDiff(t, [day |-> fetchedAt.day, ms |-> fetchedAt.ms]))
            <= CACHE_TTL_DAYS

(***************************************************************************)
(* The store: a set of rows                                                 *)
(*   [fdc_id, data_type, raw_json, fetched_at, visual_parent,              *)
(*    normalized_json]                                                     *)
(* with fdc_id the conflict target of the upsert.                          *)
(***************************************************************************)
RowsFor(rows, fdcId) == {x \in rows : x.fdc_id = fdcId}

\* select('*').eq('fdc_id', fdcId).single(): a row only when exactly one matches.
\* The answer is [data, error, thrown]; why names its cause and is not
\* something the client can read.
SelectSingle(rows, fdcId) ==
    IF Cardinality(RowsFor(rows, fdcId)) = 1
    THEN [data |-> RowsFor(rows, fdcId), error |-> FALSE, thrown |-> FALSE, why |-> "row"]
    ELSE [data |-> Undefined, error |-> TRUE, thrown |-> FALSE, why |-> "norow"]

\* The store failing: an error value, or the awaited query rejecting.
SelectError == [data |-> Undefined, error |-> TRUE, thrown |-> FALSE, why |-> "failure"]
SelectThrown == [data |-> Undefined, error |-> FALSE, thrown |-> TRUE, why |-> "thrown"]

\* An upsert that keeps the existing row on conflict (ignoreDuplicates).
StoreUpsert_IgnoringDuplicates(rows, row) ==
    IF RowsFor(rows, row.fdc_id) # {} THEN rows ELSE rows \cup {row}

\* upsert(row, { onConflict: 'fdc_id' }) as the store applies it.
StoreUpsert(rows, row) == (rows \ RowsFor(rows, row.fdc_id)) \cup {row}

\* The row stamped with the zero instant instead of the clock.
CacheRow_ZeroTimestamp(fdcId, rawData, normalizedData, t) ==
    [fdc_id |-> fdcId,
     data_type |-> rawData.dataType,
     raw_json |-> rawData,
     fetched_at |-> [ok |-> TRUE, day |-> 0, ms |-> 0],
     visual_parent |-> Some(normalizedData.visual_parent),
     normalized_json |-> Some(normalizedData)]

\* The row with the normalized payload stored without its portions.
CacheRow_DroppingPortions(fdcId, rawData, normalizedData, t) ==
    [fdc_id |-> fdcId,
     data_type |-> rawData.dataType,
     raw_json |-> rawData,
     fetched_at |-> toISOString(t),
     visual_parent |-> Some(normalizedData.visual_parent),
     normalized_json |-> Some([normalizedData EXCEPT !.portions = <<>>])]

\* The row keyed by the identifier inside the payload.
CacheRow_KeyedByPayload(fdcId, rawData, normalizedData, t) ==
    [fdc_id |-> rawData.fdcId,
     data_type |-> rawData.dataType,
     raw_json |-> rawData,
     fetched_at |-> toISOString(t),
     visual_parent |-> Some(normalizedData.visual_parent),
     normalized_json |-> Some(normalizedData)]

\* The row saveToCache sends, built when saveToCache is called (clock t).
CacheRow(fdcId, rawData, normalizedData, t) ==
    [fdc_id |-> fdcId,
     data_type |-> rawData.dataType,
     raw_json |-> rawData,
     fetched_at |-> toISOString(t),
     visual_parent |-> Some(normalizedData.visual_parent),
     normalized_json |-> Some(normalizedData)]

\* saveToCache without its try/catch: a rejected upsert rejects the promise.
saveToCacheSettles_Rethrowing(upsertOutcome) ==
    IF upsertOutcome = "throw" THEN "rejected" ELSE "resolved"

\* How the promise of saveToCache settles for each way the upsert can end
\* ("ok", "error": an error value, "throw": the awaited upsert rejects).
saveToCacheSettles(upsertOutcome) == "resolved"

(***************************************************************************)
(* The remote provider.  A response of supabase.functions.invoke is        *)
(*   [invokeError, proxyRes], proxyRes optional                            *)
(*   [success, data, error] with data an optional food.                    *)
(***************************************************************************)
Envelope(success, data, error) ==
    [success |-> success, data |-> data, error |-> error]

ResInvokeError == [invokeError |-> TRUE, proxyRes |-> Undefined]
ResNull == [invokeError |-> FALSE, proxyRes |-> Undefined]
ResFail == [invokeError |-> FALSE,
            proxyRes |-> Some(Envelope(FALSE, Undefined, Some("upstream 500")))]
ResEmpty == [invokeError |-> FALSE,
             proxyRes |-> Some(Envelope(TRUE, Undefined, Undefined))]
ResOk(food) == [invokeError |-> FALSE,
                proxyRes |-> Some(Envelope(TRUE, Some(food), Undefined))]

\* An error value: its message and, as identity, the attempt that raised it.
Err(msg, attempt) == [msg |-> msg, attempt |-> attempt]

\* Attempt A: the optimized fetch.  Every failure is swallowed; the result is
\* the value left in fetchedData.
OptimizedFetch(res) ==
    IF res.invokeError THEN Undefined
    ELSE IF ~IsDefined(res.proxyRes) \/ ~The(res.proxyRes).success THEN Undefined
    ELSE The(res.proxyRes).data

\* Attempt B: the fallback fetch, issued when fetchedData is still empty.
\* [thrown, data]: the error the attempt throws, or the value it returns.
FallbackFetch(res, attempt) ==
    IF res.invokeError
    THEN [thrown |-> Some(Err("invokeError", attempt)), data |-> Undefined]
    ELSE IF ~IsDefined(res.proxyRes) \/ ~The(res.proxyRes).success
    THEN [thrown |-> Some(Err(IF IsDefined(res.proxyRes) /\ IsDefined(The(res.proxyRes).error)
                              THEN The(The(res.proxyRes).error)
                              ELSE "USDA Fallback Error", attempt)),
          data |-> Undefined]
    ELSE IF ~IsDefined(The(res.proxyRes).data)
    THEN [thrown |-> Some(Err("Both fetch strategies failed.", attempt)),
          data |-> Undefined]
    ELSE [thrown |-> Undefined, data |-> The(res.proxyRes).data]

(***************************************************************************)
(* Inputs: the payloads the provider can return, and the rows the store    *)
(* can hold before the first request.                                      *)
(***************************************************************************)
NestedEntry(id, amount) ==
    [nutrientId |-> Undefined, nutrient |-> Some([id |-> id]),
     amount |-> Some(amount), value |-> Undefined]

FlatEntry(id, value) ==
    [nutrientId |-> Some(id), nutrient |-> Undefined,
     amount |-> Undefined, value |-> Some(value)]

\* "Ab, c": nested entries, the specific estimate listed before the direct
\* value, and a portion labelled only by modifier and measure unit.
FoodNested ==
    [fdcId |-> 1,
     description |-> Some(<<"A", "b", ",", " ", "c">>),
     dataType |-> "Foundation",
     publicationDate |-> "2024-04-01",
     foodNutrients |-> Some(<<NestedEntry(ENERGY_ATWATER_SPECIFIC, 50000),
                              NestedEntry(ENERGY_KCAL, 52004),
                              NestedEntry(PROTEIN, 1235)>>),
     foodPortions |-> Some(<<[id |-> 7, amount |-> 1, gramWeight |-> 240,
                              portionDescription |-> Some(<<>>),
                              modifier |-> Some(<<"c", "u", "p">>),
                              measureUnit |-> Some(<<"u">>)]>>),
     foodCategory |-> Undefined]

\* No description, flat entries, no portion list.
FoodFlat ==
    [fdcId |-> 2,
     description |-> Undefined,
     dataType |-> "SR Legacy",
     publicationDate |-> "2019-04-01",
     foodNutrients |-> Some(<<FlatEntry(SODIUM, 3000), FlatEntry(TOTAL_LIPID_FAT, 0)>>),
     foodPortions |-> Undefined,
     foodCategory |-> Some([description |-> <<"C">>, code |-> <<"1">>])]

\* A payload that carries no nutrient list.
FoodNoList ==
    [fdcId |-> 1,
     description |-> Some(<<"B">>),
     dataType |-> "Foundation",
     publicationDate |-> "2024-04-01",
     foodNutrients |-> Undefined,
     foodPortions |-> Undefined,
     foodCategory |-> Undefined]

Foods == {FoodNested, FoodFlat, FoodNoList}

Responses == {ResInvokeError, ResNull, ResFail, ResEmpty} \cup {ResOk(f) : f \in Foods}

\* A result page of the search action, and the answers to a search.
SearchPage == [totalHits |-> 1, currentPage |-> 1, foods |-> <<FoodFlat>>]

SearchResponses == {ResInvokeError, ResNull, ResFail, ResEmpty, ResOk(SearchPage)}

\* The clock value of the initial state.
Epoch == [day |-> 100, ms |-> 0]

DaysBefore(t, d) == [ok |-> TRUE, day |-> t.day - d, ms |-> t.ms]

Row(fdcId, food, fetchedAt, normalized) ==
    [fdc_id |-> fdcId, data_type |-> food.dataType, raw_json |-> food,
     fetched_at |-> fetchedAt,
     visual_parent |-> IF IsDefined(normalized)
                       THEN Some(The(normalized).visual_parent) ELSE Undefined,
     normalized_json |-> normalized]

\* Rows left by earlier sessions: written by the earlier normalizer revision
\* (fresh, exactly 30 days old, 31 days old), rows of the schema without a
\* normalized payload, and a row whose timestamp does not parse.
InitialRows ==
    {Row(1, FoodNested, DaysBefore(Epoch, 0), Some(normalizeFoodItemV1(FoodNested))),
     Row(1, FoodNested, DaysBefore(Epoch, CACHE_TTL_DAYS), Some(normalizeFoodItemV1(FoodNested))),
     Row(1, FoodNested, DaysBefore(Epoch, CACHE_TTL_DAYS + 1), Some(normalizeFoodItemV1(FoodNested))),
     Row(1, FoodNested, DaysBefore(Epoch, 1), Undefined),
     Row(1, FoodNoList, DaysBefore(Epoch, 1), Undefined),
     Row(1, FoodNested, [ok |-> FALSE, day |-> 0, ms |-> 0], Some(normalizeFoodItemV1(FoodNested)))}

\* The primary key: at most one row per identifier.
UniqueKey(rows) == \A x, y \in rows : x.fdc_id = y.fdc_id => x = y

(***************************************************************************)
(* One getFoodDetails call.  pc is the await the call is suspended at:     *)
(*   "idle", "lookup" (the store select), "optimized" and "fallback" (the  *)
(*   two provider invocations), "delay" (the pause of withRetry), "done".  *)
(* A searchFoods call uses the same record with op = "search" and pc       *)
(*   "search" (its provider invocation), "delay", "done".                  *)
(* History fields: lookup (how the cache check ended), lastStage and       *)
(* lastRes (the provider answer received last and the fetch it answered),  *)
(* calls (provider invocations issued), retryArgs (the arguments onRetry   *)
(* was called with), upserts (upserts issued), pauses (pauses begun by the  *)
(* standalone withRetry).                                                  *)
(***************************************************************************)
IdleReq ==
    [op |-> "details", pc |-> "idle", fdcId |-> 1, onRetry |-> FALSE, i |-> 0,
     lastError |-> Undefined, lookup |-> "none",
     lastStage |-> "none", lastRes |-> Undefined,
     calls |-> 0, retryArgs |-> <<>>, outcome |-> Undefined,
     bg |-> "none", upsert |-> Undefined, upserts |-> 0, pauses |-> 0]

Returned(v) == [kind |-> "return", value |-> v]
Thrown(e) == [kind |-> "throw", error |-> e]

\* getFoodDetails up to its first await: the select is issued.
StartCall(fdcId, onRetry) ==
    [IdleReq EXCEPT !.pc = "lookup", !.fdcId = fdcId, !.onRetry = onRetry]

\* CacheCheck with the hit branch normalizing the stored raw payload again.
CacheCheck_Renormalizing(res, t) ==
    IF res.thrown
    THEN [served |-> FALSE, value |-> Undefined, kind |-> "thrown"]
    ELSE IF IsDefined(res.data) /\ ~res.error
    THEN LET entry == The(res.data)
         IN  IF isCacheValid(entry.fetched_at, t)
             THEN IF normalizeFoodItemThrows(entry.raw_json)
                  THEN [served |-> FALSE, value |-> Undefined, kind |-> "legacyThrow"]
                  ELSE [served |-> TRUE, value |-> Some(normalizeFoodItem(entry.raw_json)),
                        kind |-> IF IsDefined(entry.normalized_json)
                                 THEN "hit" ELSE "hitLegacy"]
             ELSE [served |-> FALSE, value |-> Undefined, kind |-> "stale"]
    ELSE [served |-> FALSE, value |-> Undefined, kind |-> res.why]

\* CacheCheck without the freshness test: any populated entry is served.
CacheCheck_ServingStale(res, t) ==
    IF res.thrown
    THEN [served |-> FALSE, value |-> Undefined, kind |-> "thrown"]
    ELSE IF IsDefined(res.data) /\ ~res.error
    THEN LET entry == The(res.data)
         IN  IF IsDefined(entry.normalized_json)
             THEN [served |-> TRUE, value |-> entry.normalized_json,
                   kind |-> IF isCacheValid(entry.fetched_at, t) THEN "hit" ELSE "stale"]
             ELSE IF normalizeFoodItemThrows(entry.raw_json)
             THEN [served |-> FALSE, value |-> Undefined, kind |-> "legacyThrow"]
             ELSE [served |-> TRUE, value |-> Some(normalizeFoodItem(entry.raw_json)),
                   kind |-> "hitLegacy"]
    ELSE [served |-> FALSE, value |-> Undefined, kind |-> res.why]

\* The cache check treating a fresh entry without a normalized payload as a
\* miss.
CacheCheck_LegacyMiss(res, t) ==
    IF res.thrown
    THEN [served |-> FALSE, value |-> Undefined, kind |-> "thrown"]
    ELSE IF IsDefined(res.data) /\ ~res.error
    THEN LET entry == The(res.data)
         IN  IF isCacheValid(entry.fetched_at, t)
             THEN IF IsDefined(entry.normalized_json)
                  THEN [served |-> TRUE, value |-> entry.normalized_json, kind |-> "hit"]
                  ELSE [served |-> FALSE, value |-> Undefined, kind |-> "legacyThrow"]
             ELSE [served |-> FALSE, value |-> Undefined, kind |-> "stale"]
    ELSE [served |-> FALSE, value |-> Undefined, kind |-> res.why]

\* Step 1, the cache check on the store's answer res at clock value t:
\* [served, value, kind]; served = FALSE falls through to the network, and
\* kind records the branch taken ("norow" or "failure" where data is empty).
CacheCheck(res, t) ==
    IF res.thrown
    THEN [served |-> FALSE, value |-> Undefined, kind |-> "thrown"]
    ELSE IF IsDefined(res.data) /\ ~res.error
    THEN LET entry == The(res.data)
         IN  IF isCacheValid(entry.fetched_at, t)
             THEN IF IsDefined(entry.normalized_json)
                  THEN [served |-> TRUE, value |-> entry.normalized_json, kind |-> "hit"]
                  ELSE IF normalizeFoodItemThrows(entry.raw_json)
                  THEN [served |-> FALSE, value |-> Undefined, kind |-> "legacyThrow"]
                  ELSE [served |-> TRUE, value |-> Some(normalizeFoodItem(entry.raw_json)),
                        kind |-> "hitLegacy"]
             ELSE [served |-> FALSE, value |-> Undefined, kind |-> "stale"]
    ELSE [served |-> FALSE, value |-> Undefined, kind |-> res.why]

\* The cache check without its try/catch: a rejected select ends the request.
AfterLookup_Surfacing(q, res, t) ==
    LET c == CacheCheck(res, t)
    IN  IF res.thrown
        THEN [q EXCEPT !.pc = "done", !.lookup = c.kind,
                       !.outcome = Some(Thrown(Err("select rejected", 0)))]
        ELSE IF c.served
        THEN [q EXCEPT !.pc = "done", !.lookup = c.kind,
                       !.outcome = Some(Returned(The(c.value)))]
        ELSE [q EXCEPT !.pc = "optimized", !.lookup = c.kind, !.i = 0,
                       !.calls = @ + 1]

\* The cache check writing a served entry back with a new capture timestamp.
AfterLookup_RefreshingHit(q, res, t) ==
    LET c == CacheCheck(res, t)
    IN  IF c.served
        THEN [q EXCEPT !.pc = "done", !.lookup = c.kind,
                       !.outcome = Some(Returned(The(c.value))),
                       !.bg = "pending",
                       !.upsert = Some([The(res.data) EXCEPT !.fetched_at = toISOString(t)]),
                       !.upserts = @ + 1]
        ELSE [q EXCEPT !.pc = "optimized", !.lookup = c.kind, !.i = 0,
                       !.calls = @ + 1]

\* The request after the store answered its select.
AfterLookup(q, res, t) ==
    LET c == CacheCheck(res, t)
    IN  IF c.served
        THEN [q EXCEPT !.pc = "done", !.lookup = c.kind,
                       !.outcome = Some(Returned(The(c.value)))]
        ELSE [q EXCEPT !.pc = "optimized", !.lookup = c.kind, !.i = 0,
                       !.calls = @ + 1]

\* Normalize and cache with saveToCache awaited before the return.
NormalizeAndCache_Awaiting(q, foodData, t) ==
    IF normalizeFoodItemThrows(foodData)
    THEN [q EXCEPT !.pc = "done", !.lastError = Undefined,
                   !.outcome = Some(Thrown(Err("TypeError", q.i + 1)))]
    ELSE LET normalizedData == normalizeFoodItem(foodData)
         IN  [q EXCEPT !.pc = "saving", !.lastError = Undefined,
                       !.bg = "pending",
                       !.upsert = Some(CacheRow(q.fdcId, foodData, normalizedData, t)),
                       !.upserts = @ + 1]

\* Step 3, normalize and cache, with the fire-and-forget saveToCache call.
NormalizeAndCache(q, foodData, t) ==
    IF normalizeFoodItemThrows(foodData)
    THEN [q EXCEPT !.pc = "done", !.lastError = Undefined,
                   !.outcome = Some(Thrown(Err("TypeError", q.i + 1)))]
    ELSE LET normalizedData == normalizeFoodItem(foodData)
         IN  [q EXCEPT !.pc = "done", !.lastError = Undefined,
                       !.bg = "pending",
                       !.upsert = Some(CacheRow(q.fdcId, foodData, normalizedData, t)),
                       !.upserts = @ + 1,
                       !.outcome = Some(Returned(normalizedData))]

\* withRetry calling onRetry after every failed attempt, the last included.
RetryOrThrow_CallbackAlways(q, error) ==
    IF q.i < DEFAULT_RETRIES - 1
    THEN [q EXCEPT !.pc = "delay", !.lastError = Some(error),
                   !.retryArgs = IF q.onRetry THEN Append(@, q.i + 1) ELSE @]
    ELSE [q EXCEPT !.pc = "done", !.lastError = Undefined,
                   !.retryArgs = IF q.onRetry THEN Append(@, q.i + 1) ELSE @,
                   !.outcome = Some(Thrown(error))]

\* withRetry with its loop bound off by one: retries + 1 attempts.
RetryOrThrow_ExtraAttempt(q, error) ==
    IF q.i < DEFAULT_RETRIES
    THEN [q EXCEPT !.pc = "delay", !.lastError = Some(error),
                   !.retryArgs = IF q.onRetry THEN Append(@, q.i + 1) ELSE @]
    ELSE [q EXCEPT !.pc = "done", !.lastError = Undefined,
                   !.outcome = Some(Thrown(error))]

\* withRetry keeping the first error it caught instead of the last.
RetryOrThrow_FirstError(q, error) ==
    LET kept == IF IsDefined(q.lastError) THEN The(q.lastError) ELSE error
    IN  IF q.i < DEFAULT_RETRIES - 1
        THEN [q EXCEPT !.pc = "delay", !.lastError = Some(kept),
                       !.retryArgs = IF q.onRetry THEN Append(@, q.i + 1) ELSE @]
        ELSE [q EXCEPT !.pc = "done", !.lastError = Undefined,
                       !.outcome = Some(Thrown(kept))]

\* withRetry numbering its callback from 0.
RetryOrThrow_ArgFromZero(q, error) ==
    IF q.i < DEFAULT_RETRIES - 1
    THEN [q EXCEPT !.pc = "delay", !.lastError = Some(error),
                   !.retryArgs = IF q.onRetry THEN Append(@, q.i) ELSE @]
    ELSE [q EXCEPT !.pc = "done", !.lastError = Undefined,
                   !.outcome = Some(Thrown(error))]

\* withRetry after the operation threw error in attempt q.i (counted from 0).
RetryOrThrow(q, error) ==
    IF q.i < DEFAULT_RETRIES - 1
    THEN [q EXCEPT !.pc = "delay", !.lastError = Some(error),
                   !.retryArgs = IF q.onRetry THEN Append(@, q.i + 1) ELSE @]
    ELSE [q EXCEPT !.pc = "done", !.lastError = Undefined,
                   !.outcome = Some(Thrown(error))]

\* The fallback fetch issued without the guard on fetchedData, after every
\* optimized fetch.
AfterOptimized_AlwaysFallback(q, res, t) ==
    [q EXCEPT !.lastStage = "optimized", !.lastRes = Some(res),
              !.pc = "fallback", !.calls = @ + 1]

\* The optimized fetch letting an answer of success without data escape its
\* catch, so that the attempt fails without a fallback fetch.
AfterOptimized_EmptyEscapes(q, res, t) ==
    LET fetchedData == OptimizedFetch(res)
        q1 == [q EXCEPT !.lastStage = "optimized", !.lastRes = Some(res)]
    IN  IF IsDefined(fetchedData)
        THEN NormalizeAndCache(q1, The(fetchedData), t)
        ELSE IF res = ResEmpty
        THEN RetryOrThrow(q1, Err("No data returned", q.i + 1))
        ELSE [q1 EXCEPT !.pc = "fallback", !.calls = @ + 1]

\* The request after the provider answered the optimized fetch.
AfterOptimized(q, res, t) ==
    LET fetchedData == OptimizedFetch(res)
        q1 == [q EXCEPT !.lastStage = "optimized", !.lastRes = Some(res)]
    IN  IF IsDefined(fetchedData)
        THEN NormalizeAndCache(q1, The(fetchedData), t)
        ELSE [q1 EXCEPT !.pc = "fallback", !.calls = @ + 1]

\* The fallback fetch without the guards on an empty result: an answer of
\* success without data ends the request with the empty value.
AfterFallback_ReturningEmpty(q, res, t) ==
    LET f == FallbackFetch(res, q.i + 1)
        q1 == [q EXCEPT !.lastStage = "fallback", !.lastRes = Some(res)]
    IN  IF res = ResEmpty
        THEN [q1 EXCEPT !.pc = "done", !.lastError = Undefined,
                        !.outcome = Some(Returned(Undefined))]
        ELSE IF IsDefined(f.thrown)
        THEN RetryOrThrow(q1, The(f.thrown))
        ELSE NormalizeAndCache(q1, The(f.data), t)

\* The fallback fetch's failure thrown to the caller at once, outside the
\* retry loop.
AfterFallback_ThrowingAtOnce(q, res, t) ==
    LET f == FallbackFetch(res, q.i + 1)
        q1 == [q EXCEPT !.lastStage = "fallback", !.lastRes = Some(res)]
    IN  IF IsDefined(f.thrown)
        THEN [q1 EXCEPT !.pc = "done", !.lastError = Undefined,
                        !.outcome = Some(Thrown(The(f.thrown)))]
        ELSE NormalizeAndCache(q1, The(f.data), t)

\* The request after the provider answered the fallback fetch.
AfterFallback(q, res, t) ==
    LET f == FallbackFetch(res, q.i + 1)
        q1 == [q EXCEPT !.lastStage = "fallback", !.lastRes = Some(res)]
    IN  IF IsDefined(f.thrown)
        THEN RetryOrThrow(q1, The(f.thrown))
        ELSE NormalizeAndCache(q1, The(f.data), t)

\* The next attempt starting over at the cache check.
AfterDelay_Relookup(q) ==
    [q EXCEPT !.pc = IF q.op = "search" THEN "search" ELSE "lookup",
              !.i = @ + 1,
              !.calls = IF q.op = "search" THEN @ + 1 ELSE @]

\* The pause of withRetry is over: the next attempt runs the operation again,
\* which issues its first provider invocation.
AfterDelay(q) ==
    [q EXCEPT !.pc = IF q.op = "search" THEN "search" ELSE "optimized",
              !.i = @ + 1, !.calls = @ + 1]

\* searchFoods up to its first await: the provider invocation is issued.
StartSearch(onRetry) ==
    [IdleReq EXCEPT !.op = "search", !.pc = "search", !.onRetry = onRetry,
                    !.calls = 1]

\* The search operation taking the payload of any answer, failed or not.
SearchFetch_IgnoringFailure(res, attempt) ==
    IF res.invokeError
    THEN [thrown |-> Some(Err("invokeError", attempt)), data |-> Undefined]
    ELSE [thrown |-> Undefined,
          data |-> IF IsDefined(res.proxyRes) THEN The(res.proxyRes).data ELSE Undefined]

\* The operation searchFoods hands to withRetry, on the provider's answer:
\* [thrown, data], the error it throws or the page it returns (proxyRes.data,
\* which may be empty).
SearchFetch(res, attempt) ==
    IF res.invokeError
    THEN [thrown |-> Some(Err("invokeError", attempt)), data |-> Undefined]
    ELSE IF ~IsDefined(res.proxyRes) \/ ~The(res.proxyRes).success
    THEN [thrown |-> Some(Err(IF IsDefined(res.proxyRes) /\ IsDefined(The(res.proxyRes).error)
                              THEN The(The(res.proxyRes).error)
                              ELSE "USDA Search Error", attempt)),
          data |-> Undefined]
    ELSE [thrown |-> Undefined, data |-> The(res.proxyRes).data]

\* The request after the provider answered the search invocation.
AfterSearch(q, res) ==
    LET f == SearchFetch(res, q.i + 1)
        q1 == [q EXCEPT !.lastStage = "search", !.lastRes = Some(res)]
    IN  IF IsDefined(f.thrown)
        THEN RetryOrThrow(q1, The(f.thrown))
        ELSE [q1 EXCEPT !.pc = "done", !.lastError = Undefined,
                        !.outcome = Some(Returned(f.data))]

(***************************************************************************)
(* Actions.  Each takes the sets its inputs are drawn from.                *)
(***************************************************************************)
TickSteps == {[day |-> 0, ms |-> 1], [day |-> CACHE_TTL_DAYS, ms |-> 0]}

Plus(t, d) ==
    IF t.ms + d.ms >= MS_PER_DAY
    THEN [day |-> t.day + d.day + 1, ms |-> t.ms + d.ms - MS_PER_DAY]
    ELSE [day |-> t.day + d.day, ms |-> t.ms + d.ms]

Call(r, idSet, onRetrySet) ==
    /\ req[r].pc = "idle"
    /\ \E fdcId \in idSet, onRetry \in onRetrySet :
          req' = [req EXCEPT ![r] = StartCall(fdcId, onRetry)]
    /\ UNCHANGED <<store, now, applied, ticks, fn, view>>

SearchCall(r, onRetrySet) ==
    /\ req[r].pc = "idle"
    /\ \E onRetry \in onRetrySet :
          req' = [req EXCEPT ![r] = StartSearch(onRetry)]
    /\ UNCHANGED <<store, now, applied, ticks, fn, view>>

SearchRespond(r, responses) ==
    /\ req[r].pc = "search"
    /\ \E res \in responses :
          req' = [req EXCEPT ![r] = AfterSearch(req[r], res)]
    /\ UNCHANGED <<store, now, applied, ticks, fn, view>>

\* A lookup that joins a retrieval already in flight for the same identifier
\* instead of starting its own.
LookupRespond_Coalescing(r, failures) ==
    /\ req[r].pc = "lookup"
    /\ \E res \in {SelectSingle(store, req[r].fdcId)} \cup failures :
          LET q == AfterLookup(req[r], res, now)
              busy == \E o \in Req \ {r} :
                         /\ req[o].fdcId = req[r].fdcId
                         /\ req[o].pc \in {"optimized", "fallback", "delay"}
          IN  req' = [req EXCEPT ![r] =
                         IF q.pc = "optimized" /\ busy
                         THEN [q EXCEPT !.pc = "joined", !.calls = 0]
                         ELSE q]
    /\ UNCHANGED <<store, now, applied, ticks, fn, view>>

\* The store answers the select: with the row it holds, or it fails.
LookupRespond(r, failures) ==
    /\ req[r].pc = "lookup"
    /\ \E res \in {SelectSingle(store, req[r].fdcId)} \cup failures :
          req' = [req EXCEPT ![r] = AfterLookup(req[r], res, now)]
    /\ UNCHANGED <<store, now, applied, ticks, fn, view>>

OptimizedRespond(r, responses) ==
    /\ req[r].pc = "optimized"
    /\ \E res \in responses :
          req' = [req EXCEPT ![r] = AfterOptimized(req[r], res, now)]
    /\ UNCHANGED <<store, now, applied, ticks, fn, view>>

FallbackRespond(r, responses) ==
    /\ req[r].pc = "fallback"
    /\ \E res \in responses :
          req' = [req EXCEPT ![r] = AfterFallback(req[r], res, now)]
    /\ UNCHANGED <<store, now, applied, ticks, fn, view>>

DelayElapsed(r) ==
    /\ req[r].pc = "delay"
    /\ req' = [req EXCEPT ![r] = AfterDelay(req[r])]
    /\ UNCHANGED <<store, now, applied, ticks, fn, view>>

\* The store answers the upsert of request r: it applies the row, or fails
\* with an error value, or the awaited call rejects.
UpsertSettle(r) ==
    /\ req[r].bg = "pending"
    /\ \E upsertOutcome \in {"ok", "error", "throw"} :
          /\ req' = [req EXCEPT ![r].bg = saveToCacheSettles(upsertOutcome)]
          /\ IF upsertOutcome = "ok"
             THEN /\ store' = StoreUpsert(store, The(req[r].upsert))
                  /\ applied' = [applied EXCEPT ![The(req[r].upsert).fdc_id] =
                                                     Append(@, The(req[r].upsert))]
             ELSE UNCHANGED <<store, applied>>
    /\ UNCHANGED <<now, ticks, fn, view>>

Tick(steps) ==
    /\ ticks < MaxTicks
    /\ \E d \in steps : now' = Plus(now, d)
    /\ ticks' = ticks + 1
    /\ UNCHANGED <<req, store, applied, fn, view>>

(***************************************************************************)
(* Spec: one call of the service, getFoodDetails or searchFoods, with      *)
(* every input the code distinguishes.                                     *)
(***************************************************************************)
\* The component as mounted: useState(null), useState(true), useState(null),
\* useState("").  id is the route parameter the last effect ran for;
\* retryStatus is the attempt number shown, 0 for the empty string.
InitialView ==
    [id |-> Undefined, food |-> Undefined, isLoading |-> TRUE,
     error |-> Undefined, retryStatus |-> 0]

\* No pure function is under study: the argument slot is empty.
NoFn == [kind |-> "none", arg |-> Undefined, op |-> "none", out |-> Undefined]

InitWith(stores) ==
    /\ req = [r \in Req |-> IdleReq]
    /\ store \in stores
    /\ now = Epoch
    /\ applied = [k \in Ids |-> <<>>]
    /\ ticks = 0
    /\ fn = NoFn
    /\ view = InitialView

Init == InitWith({rows \in SUBSET InitialRows : UniqueKey(rows)})

SelectFailures == {SelectError, SelectThrown}

Next ==
    \/ Call("r1", Ids, BOOLEAN)
    \/ LookupRespond("r1", SelectFailures)
    \/ OptimizedRespond("r1", Responses)
    \/ FallbackRespond("r1", Responses)
    \/ DelayElapsed("r1")
    \/ UpsertSettle("r1")
    \/ SearchCall("r1", BOOLEAN)
    \/ SearchRespond("r1", SearchResponses)
    \/ Tick(TickSteps)

Spec == Init /\ [][Next]_vars

\* SpecLive: Spec with the scheduling the runtime provides.  Every awaited
\* store access and provider invocation is eventually answered (the premise
\* of the termination property), and the timer of the pause between two
\* attempts eventually fires.
SpecLive ==
    /\ Init
    /\ [][Next]_vars
    /\ WF_vars(LookupRespond("r1", SelectFailures))
    /\ WF_vars(OptimizedRespond("r1", Responses))
    /\ WF_vars(FallbackRespond("r1", Responses))
    /\ WF_vars(SearchRespond("r1", SearchResponses))
    /\ WF_vars(UpsertSettle("r1"))
    /\ WF_vars(DelayElapsed("r1"))

(***************************************************************************)
(* SpecConc: two getFoodDetails calls, in sequence or overlapping, with a  *)
(* store that answers every select, one failing answer and two payloads    *)
(* from the provider, and a clock that advances by the validity window.    *)
(***************************************************************************)
ConcResponses == {ResFail, ResOk(FoodNested), ResOk(FoodFlat)}

\* The stores two calls start from: empty, a stale entry, and an entry
\* stamped by a writer whose clock ran ahead, more than the validity window
\* beyond every clock value of the behaviour's first call.
ConcStores ==
    {{},
     {Row(1, FoodNested, DaysBefore(Epoch, CACHE_TTL_DAYS + 1),
          Some(normalizeFoodItemV1(FoodNested)))},
     {Row(1, FoodNested, DaysBefore(Epoch, 0 - (2 * CACHE_TTL_DAYS + 1)),
          Some(normalizeFoodItemV1(FoodNested)))}}

ConcTickSteps == {[day |-> CACHE_TTL_DAYS, ms |-> 0]}

InitConc == InitWith(ConcStores)

NextConc ==
    \/ \E r \in Req : Call(r, Ids, {TRUE})
    \/ \E r \in Req : LookupRespond(r, {})
    \/ \E r \in Req : OptimizedRespond(r, ConcResponses)
    \/ \E r \in Req : FallbackRespond(r, ConcResponses)
    \/ \E r \in Req : DelayElapsed(r)
    \/ \E r \in Req : UpsertSettle(r)
    \/ Tick(ConcTickSteps)

SpecConc == InitConc /\ [][NextConc]_vars

(***************************************************************************)
(* SpecView: the FoodDetails component.  Its effect runs fetchDetails each  *)
(* time the route parameter id changes; fetchDetails awaits getFoodDetails  *)
(* and then writes the component state.  Request slot r1 is the call of the *)
(* first run of the effect, r2 the call of the run after the route changed. *)
(* A step of a call that ends it also runs the continuation of             *)
(* fetchDetails (a microtask of the same turn of the event loop).           *)
(***************************************************************************)
ViewResponses == {ResFail, ResOk(FoodNested), ResOk(FoodFlat)}

\* The request the effect ran for last.
LatestRun == IF req["r2"].pc # "idle" THEN "r2" ELSE "r1"

\* The component state after a step that took the call from q0 to q1: the
\* onRetry callback sets retryStatus; the end of the call resumes
\* fetchDetails, which sets food or error and, in finally, clears isLoading
\* and retryStatus.
Resume(v, q0, q1) ==
    LET v1 == IF Len(q1.retryArgs) > Len(q0.retryArgs)
              THEN [v EXCEPT !.retryStatus = q1.retryArgs[Len(q1.retryArgs)]]
              ELSE v
    IN  IF q1.pc # "done" THEN v1
        ELSE IF The(q1.outcome).kind = "return"
        THEN [v1 EXCEPT !.food = Some(The(q1.outcome).value),
                        !.isLoading = FALSE, !.retryStatus = 0]
        ELSE [v1 EXCEPT !.error = Some(The(q1.outcome).error.msg),
                        !.isLoading = FALSE, !.retryStatus = 0]

\* The route parameter becomes fdcId and the effect runs: the state is reset
\* and getFoodDetails is called, up to its first await.
Navigate(r, idSet) ==
    /\ req[r].pc = "idle"
    /\ r = "r2" => req["r1"].pc # "idle"
    /\ \E fdcId \in idSet :
          /\ Some(fdcId) # view.id
          /\ req' = [req EXCEPT ![r] = StartCall(fdcId, TRUE)]
          /\ view' = [view EXCEPT !.id = Some(fdcId), !.isLoading = TRUE,
                                  !.error = Undefined, !.retryStatus = 0]
    /\ UNCHANGED <<store, now, applied, ticks, fn>>

ViewLookupRespond(r) ==
    /\ req[r].pc = "lookup"
    /\ \E res \in {SelectSingle(store, req[r].fdcId)} :
          /\ req' = [req EXCEPT ![r] = AfterLookup(req[r], res, now)]
          /\ view' = Resume(view, req[r], AfterLookup(req[r], res, now))
    /\ UNCHANGED <<store, now, applied, ticks, fn>>

ViewOptimizedRespond(r) ==
    /\ req[r].pc = "optimized"
    /\ \E res \in ViewResponses :
          /\ req' = [req EXCEPT ![r] = AfterOptimized(req[r], res, now)]
          /\ view' = Resume(view, req[r], AfterOptimized(req[r], res, now))
    /\ UNCHANGED <<store, now, applied, ticks, fn>>

ViewFallbackRespond(r) ==
    /\ req[r].pc = "fallback"
    /\ \E res \in ViewResponses :
          /\ req' = [req EXCEPT ![r] = AfterFallback(req[r], res, now)]
          /\ view' = Resume(view, req[r], AfterFallback(req[r], res, now))
    /\ UNCHANGED <<store, now, applied, ticks, fn>>

InitView == InitWith({{}})

NextView ==
    \/ \E r \in Req : Navigate(r, Ids)
    \/ \E r \in Req : ViewLookupRespond(r)
    \/ \E r \in Req : ViewOptimizedRespond(r)
    \/ \E r \in Req : ViewFallbackRespond(r)
    \/ \E r \in Req : DelayElapsed(r)
    \/ \E r \in Req : UpsertSettle(r)

SpecView == InitView /\ [][NextView]_vars

(***************************************************************************)
(* SpecRetry: the earlier object-literal usdaService.  Its getFoodDetails   *)
(* has no cache: it wraps callProxy in the standalone withRetry and         *)
(* normalizes what withRetry returns.  pc is "proxy" (the awaited           *)
(* callProxy of attempt i), "pause" (the awaited pause), "done".            *)
(***************************************************************************)
PROXY_RETRIES == 3

\* callProxy on the answer res: the error it throws, or data.data.
callProxy(res, attempt) ==
    IF res.invokeError
    THEN [thrown |-> Some(Err("invokeError", attempt)), data |-> Undefined]
    ELSE IF ~IsDefined(res.proxyRes)
    THEN [thrown |-> Some(Err("No response from proxy.", attempt)), data |-> Undefined]
    ELSE IF ~The(res.proxyRes).success
    THEN [thrown |-> Some(Err(IF IsDefined(The(res.proxyRes).error)
                              THEN The(The(res.proxyRes).error)
                              ELSE "USDA Error", attempt)),
          data |-> Undefined]
    ELSE [thrown |-> Undefined, data |-> The(res.proxyRes).data]

\* getFoodDetails of the object literal up to its first await: withRetry
\* enters its loop with i = 0 and calls fn.
StartProxyDetails(fdcId, onRetry) ==
    [IdleReq EXCEPT !.op = "proxyDetails", !.pc = "proxy", !.fdcId = fdcId,
                    !.onRetry = onRetry, !.calls = 1]

\* The catch of the loop: lastError = err, onRetry(i + 1), pause(delay).
Caught(q, error) ==
    [q EXCEPT !.pc = "pause", !.lastError = Some(error),
              !.retryArgs = IF q.onRetry THEN Append(@, q.i + 1) ELSE @,
              !.pauses = @ + 1]

\* The call after the provider answered attempt q.i: fn returned, and
\* getFoodDetails normalizes the value, or fn threw.
AfterProxy(q, res) ==
    LET f == callProxy(res, q.i + 1)
        q1 == [q EXCEPT !.lastStage = "proxy", !.lastRes = Some(res)]
    IN  IF IsDefined(f.thrown) THEN Caught(q1, The(f.thrown))
        ELSE IF ~IsDefined(f.data) \/ normalizeFoodItemThrows(The(f.data))
        THEN [q1 EXCEPT !.pc = "done",
                        !.outcome = Some(Thrown(Err("TypeError", q.i + 1)))]
        ELSE [q1 EXCEPT !.pc = "done",
                        !.outcome = Some(Returned(normalizeFoodItem(The(f.data))))]

\* The call after the pause: i++, then the next attempt, or throw lastError
\* when the loop is over.
AfterPause(q) ==
    IF q.i + 1 < PROXY_RETRIES
    THEN [q EXCEPT !.pc = "proxy", !.i = @ + 1, !.calls = @ + 1]
    ELSE [q EXCEPT !.pc = "done", !.i = @ + 1,
                   !.outcome = Some(Thrown(The(q.lastError)))]

ProxyCall(r, idSet, onRetrySet) ==
    /\ req[r].pc = "idle"
    /\ \E fdcId \in idSet, onRetry \in onRetrySet :
          req' = [req EXCEPT ![r] = StartProxyDetails(fdcId, onRetry)]
    /\ UNCHANGED <<store, now, applied, ticks, fn, view>>

ProxyRespond(r, responses) ==
    /\ req[r].pc = "proxy"
    /\ \E res \in responses :
          req' = [req EXCEPT ![r] = AfterProxy(req[r], res)]
    /\ UNCHANGED <<store, now, applied, ticks, fn, view>>

PauseElapsed(r) ==
    /\ req[r].pc = "pause"
    /\ req' = [req EXCEPT ![r] = AfterPause(req[r])]
    /\ UNCHANGED <<store, now, applied, ticks, fn, view>>

InitRetry == InitWith({{}})

NextRetry ==
    \/ \E r \in Req : ProxyCall(r, Ids, BOOLEAN)
    \/ \E r \in Req : ProxyRespond(r, Responses)
    \/ \E r \in Req : PauseElapsed(r)

SpecRetry == InitRetry /\ [][NextRetry]_vars

(***************************************************************************)
(* SpecFn: one application of a pure function of the normalizer or of the  *)
(* cache policy to an argument drawn in the initial state.  fn is          *)
(*   [kind, arg, op, out]: the kind of argument, the argument, the         *)
(*   function applied ("none" before), and its outcome, once applied,      *)
(*   [thrown, value] with value empty when the function threw.             *)
(***************************************************************************)
MaxNutrients == 2      \* entries in a nutrient list
MaxAgeDays == 33       \* days between a capture timestamp and the clock
MaxDescriptionLen == 3 \* characters of a generated description

SeqsUpTo(S, n) == UNION {[1..k -> S] : k \in 0..n}

\* Entries of the detail format.  Direct energy: a nested amount that
\* rounds, a flat value, a zero amount beside a value, neither field.
\* Specific estimate: a nested amount, a negative amount.  General estimate:
\* a flat value, a zero amount.  Protein: a flat value, a nested zero.
Entry(id, flat, amount, value) ==
    [nutrientId |-> IF flat THEN Some(id) ELSE Undefined,
     nutrient |-> IF flat THEN Undefined ELSE Some([id |-> id]),
     amount |-> amount, value |-> value]

NutrientEntries ==
    {NestedEntry(ENERGY_KCAL, 52004),
     FlatEntry(ENERGY_KCAL, 51000),
     Entry(ENERGY_KCAL, FALSE, Some(0), Some(7000)),
     Entry(ENERGY_KCAL, TRUE, Undefined, Undefined),
     NestedEntry(ENERGY_ATWATER_SPECIFIC, 50000),
     NestedEntry(ENERGY_ATWATER_SPECIFIC, 0 - 5000),
     FlatEntry(ENERGY_ATWATER_GENERAL, 48000),
     NestedEntry(ENERGY_ATWATER_GENERAL, 0),
     FlatEntry(PROTEIN, 1235),
     NestedEntry(PROTEIN, 0)}

FoodWith(list) == [FoodNested EXCEPT !.foodNutrients = Some(list)]

ListedFoods == {FoodWith(list) : list \in SeqsUpTo(NutrientEntries, MaxNutrients)}

CandidateLists ==
    {EnergyIds, <<PROTEIN>>, <<ENERGY_ATWATER_GENERAL, ENERGY_KCAL>>}

\* Portions of the detail format: each label missing, empty or present.
DetailPortions ==
    {[id |-> 7, amount |-> 1, gramWeight |-> 240,
      portionDescription |-> d, modifier |-> m, measureUnit |-> u] :
        d \in {Undefined, Some(<<>>), Some(<<"1", " ", "c">>)},
        m \in {Undefined, Some(<<>>), Some(<<"c", "u", "p">>)},
        u \in {Undefined, Some(<<>>), Some(<<"u">>)}}

\* Portions of the search-index format.
IndexPortions ==
    {[portionId |-> Some(7), amount |-> Some(1), gramWeight |-> Some(240),
      portionDescription |-> d, measureUnitName |-> u, modifier |-> m] :
        d \in {Undefined, Some(<<>>), Some(<<"1", " ", "c">>)},
        m \in {Undefined, Some(<<>>), Some(<<"c", "u", "p">>)},
        u \in {Undefined, Some(<<>>), Some(<<"u">>)}}
    \cup {[portionId |-> Undefined, amount |-> Undefined, gramWeight |-> Undefined,
           portionDescription |-> Undefined, measureUnitName |-> Undefined,
           modifier |-> Undefined]}

\* Nutrient entries of the search-index format: the three energy numbers
\* with an amount, a zero amount or none, a macro number, an identifier
\* written where the number belongs, and an entry without a number.
IndexEntry(nutrientNumber, amount) ==
    [nutrientNumber |-> nutrientNumber, nutrientName |-> Some(<<"n">>),
     unitName |-> Some(<<"u">>), amount |-> amount]

IndexEntries ==
    {IndexEntry(Some(<<"2", "0", "8">>), Some(52000)),
     IndexEntry(Some(<<"2", "0", "8">>), Some(0)),
     IndexEntry(Some(<<"9", "5", "8">>), Some(50000)),
     IndexEntry(Some(<<"9", "5", "8">>), Some(0)),
     IndexEntry(Some(<<"9", "5", "8">>), Undefined),
     IndexEntry(Some(<<"9", "5", "7">>), Some(48000)),
     IndexEntry(Some(<<"9", "5", "7">>), Some(0)),
     IndexEntry(Some(<<"2", "0", "3">>), Some(1235)),
     IndexEntry(Some(<<"1", "0", "0", "8">>), Some(51000)),
     IndexEntry(Undefined, Some(9000))}

IndexRow(nutrients, portions) ==
    [default_fdc_id |-> 1,
     primary_label |-> Some(<<"A", "b", ",", " ", "c">>),
     canonical_name |-> Undefined,
     usda_data_type |-> Some(<<"F">>),
     default_dataset |-> Undefined,
     food_category |-> Some(<<"C">>),
     nutrients |-> nutrients,
     portions |-> portions]

\* Entries of the search-index format for the macro lookups: protein by its
\* number with an amount, a zero amount and none, protein and fat by their
\* identifiers written where the number belongs, and fat by its number.
MacroEntries ==
    {IndexEntry(Some(<<"2", "0", "3">>), Some(1235)),
     IndexEntry(Some(<<"2", "0", "3">>), Some(0)),
     IndexEntry(Some(<<"2", "0", "3">>), Undefined),
     IndexEntry(Some(<<"1", "0", "0", "3">>), Some(2000)),
     IndexEntry(Some(<<"1", "0", "0", "4">>), Some(700)),
     IndexEntry(Some(<<"2", "0", "4">>), Some(500))}

\* Category names: missing, empty, present.
CategoryNames == {Undefined, Some(<<>>), Some(<<"C">>)}

IndexRows ==
    {IndexRow(Some(list), Undefined) : list \in SeqsUpTo(IndexEntries, MaxNutrients)}
    \cup {IndexRow(Undefined, Some(<<p>>)) : p \in IndexPortions}
    \cup {IndexRow(Some(list), Undefined) : list \in SeqsUpTo(MacroEntries, MaxNutrients)}
    \cup {[IndexRow(Undefined, Undefined) EXCEPT !.food_category = c,
                                                  !.canonical_name = n] :
            c \in CategoryNames, n \in {Undefined, Some(<<"a">>)}}

\* Detail records with the category object missing, with an empty name and
\* code, and with both.
CategoryFoods ==
    {[FoodFlat EXCEPT !.foodCategory = Undefined]}
    \cup {[FoodFlat EXCEPT !.foodCategory = Some([description |-> The(c), code |-> The(c)])] :
            c \in CategoryNames \ {Undefined}}

\* Capture timestamps around the clock of the initial state: up to
\* MaxAgeDays before and after it, on the day boundary and next to it, and
\* one that does not parse.
Timestamps ==
    {[ok |-> TRUE, day |-> d, ms |-> x] :
        d \in (Epoch.day - MaxAgeDays)..(Epoch.day + MaxAgeDays),
        x \in {0, 1, MS_PER_DAY - 1}}
    \cup {[ok |-> FALSE, day |-> 0, ms |-> 0]}

\* Descriptions: missing, every string of up to MaxDescriptionLen characters
\* over a capital, a small letter, the comma and the space, and a USDA
\* description with two commas.
DescriptionChars == {"A", "b", ",", " "}

Str_ApplesRawFuji ==
    <<"A", "p", "p", "l", "e", "s", ",", " ", "r", "a", "w", ",", " ",
      "f", "u", "j", "i">>

Descriptions ==
    {Undefined, Some(Str_ApplesRawFuji)}
    \cup {Some(s) : s \in SeqsUpTo(DescriptionChars, MaxDescriptionLen)}

FnInput(kind, arg) == [kind |-> kind, arg |-> Some(arg), op |-> "none", out |-> Undefined]

FnInputs ==
    {FnInput("getValue", [food |-> f, possibleIds |-> c]) :
        f \in ListedFoods \cup {FoodNoList}, c \in CandidateLists}
    \cup {FnInput("food", f) : f \in ListedFoods \cup Foods \cup CategoryFoods}
    \cup {FnInput("portion", p) : p \in DetailPortions}
    \cup {FnInput("row", row) : row \in IndexRows}
    \cup {FnInput("timestamp", ts) : ts \in Timestamps}
    \cup {FnInput("description", d) : d \in Descriptions}

FnReturned(v) == Some([thrown |-> FALSE, value |-> Some(v)])
FnThrown == Some([thrown |-> TRUE, value |-> Undefined])

InitFn ==
    /\ req = [r \in Req |-> IdleReq]
    /\ store = {}
    /\ now = Epoch
    /\ applied = [k \in Ids |-> <<>>]
    /\ ticks = 0
    /\ fn \in FnInputs
    /\ view = InitialView

ApplyGetValue ==
    /\ fn.kind = "getValue" /\ fn.op = "none"
    /\ fn' = [fn EXCEPT !.op = "getValue",
                        !.out = IF getValueThrows(The(fn.arg).food) THEN FnThrown
                                ELSE FnReturned(getValue(The(fn.arg).food,
                                                         The(fn.arg).possibleIds))]
    /\ UNCHANGED <<req, store, now, applied, ticks, view>>

ApplyNormalizeFoodItem ==
    /\ fn.kind = "food" /\ fn.op = "none"
    /\ fn' = [fn EXCEPT !.op = "normalizeFoodItem",
                        !.out = IF normalizeFoodItemThrows(The(fn.arg)) THEN FnThrown
                                ELSE FnReturned(normalizeFoodItem(The(fn.arg)))]
    /\ UNCHANGED <<req, store, now, applied, ticks, view>>

ApplyNormalizeFoodPortion ==
    /\ fn.kind = "portion" /\ fn.op = "none"
    /\ fn' = [fn EXCEPT !.op = "normalizeFoodPortion",
                        !.out = FnReturned(normalizeFoodPortion(The(fn.arg)))]
    /\ UNCHANGED <<req, store, now, applied, ticks, view>>

ApplyNormalizeTilesFoodDetailsRow ==
    /\ fn.kind = "row" /\ fn.op = "none"
    /\ fn' = [fn EXCEPT !.op = "normalizeTilesFoodDetailsRow",
                        !.out = FnReturned(normalizeTilesFoodDetailsRow(The(fn.arg)))]
    /\ UNCHANGED <<req, store, now, applied, ticks, view>>

ApplyIsCacheValid ==
    /\ fn.kind = "timestamp" /\ fn.op = "none"
    /\ fn' = [fn EXCEPT !.op = "isCacheValid",
                        !.out = FnReturned(isCacheValid(The(fn.arg), now))]
    /\ UNCHANGED <<req, store, now, applied, ticks, view>>

ApplyGenerateVisualParent ==
    /\ fn.kind = "description" /\ fn.op = "none"
    /\ fn' = [fn EXCEPT !.op = "generateVisualParent",
                        !.out = FnReturned(generateVisualParent(The(fn.arg)))]
    /\ UNCHANGED <<req, store, now, applied, ticks, view>>

NextFn ==
    \/ ApplyGetValue
    \/ ApplyNormalizeFoodItem
    \/ ApplyNormalizeFoodPortion
    \/ ApplyNormalizeTilesFoodDetailsRow
    \/ ApplyIsCacheValid
    \/ ApplyGenerateVisualParent

SpecFn == InitFn /\ [][NextFn]_vars

(***************************************************************************)
(* Properties.                                                             *)
(***************************************************************************)
\* The payload a provider answer carries, if it carries one.
PayloadOf(res) ==
    IF ~res.invokeError /\ IsDefined(res.proxyRes) /\ The(res.proxyRes).success
    THEN The(res.proxyRes).data
    ELSE Undefined

\* How the request ended: "return", "throw", or "none" while it is running.
OutcomeKind(q) == IF IsDefined(q.outcome) THEN The(q.outcome).kind ELSE "none"

\* The select of request r is answered in this step, by the store's own row.
AnsweredWithRow(r, row) ==
    /\ req[r].pc = "lookup"
    /\ req'[r].pc # "lookup"
    /\ req'[r].lookup \notin {"failure", "thrown"}
    /\ RowsFor(store, req[r].fdcId) = {row}

\* C1: when the store answers a getFoodDetails request with an entry whose
\* capture timestamp is fresh and whose normalized payload is populated, the
\* request ends in that step having made no provider invocation and issued no
\* upsert, and returns exactly the stored normalized payload; a request served
\* from the cache stays that way.
C1_CacheHitServesStored ==
    /\ [](\A r \in Req : req[r].lookup = "hit" =>
            /\ req[r].pc = "done"
            /\ req[r].calls = 0
            /\ req[r].upserts = 0
            /\ req[r].bg = "none")
    /\ [][\A r \in Req : \A row \in store :
            (/\ AnsweredWithRow(r, row)
             /\ isCacheValid(row.fetched_at, now)
             /\ IsDefined(row.normalized_json))
            => /\ req'[r].pc = "done"
               /\ req'[r].lookup = "hit"
               /\ req'[r].calls = 0
               /\ req'[r].upserts = 0
               /\ req'[r].outcome = Some(Returned(The(row.normalized_json)))]_vars

\* C1 witness: a request served from a fresh entry whose stored normalized
\* payload differs from what normalizing its raw payload would give.
C1_Witness ==
    /\ req["r1"].lookup = "hit"
    /\ \E row \in store :
          /\ row.fdc_id = req["r1"].fdcId
          /\ req["r1"].outcome = Some(Returned(The(row.normalized_json)))
          /\ The(row.normalized_json) # normalizeFoodItem(row.raw_json)

\* C2: when the store holds an entry for the requested identifier whose
\* capture timestamp is stale, the request goes on to the provider whatever
\* the select answers, and a finished request that saw a stale entry either
\* returns the normalized payload the provider sent or, when the last answer
\* carried none, throws: it never returns the stale entry's payload.
C2_StaleNeverServed ==
    /\ [](\A r \in Req : (req[r].lookup = "stale" /\ req[r].pc = "done") =>
            /\ req[r].calls >= 1
            /\ IF IsDefined(PayloadOf(The(req[r].lastRes)))
               THEN OutcomeKind(req[r]) = "return" =>
                      req[r].outcome =
                          Some(Returned(normalizeFoodItem(The(PayloadOf(The(req[r].lastRes))))))
               ELSE /\ OutcomeKind(req[r]) = "throw"
                    /\ req[r].calls = 2 * DEFAULT_RETRIES)
    /\ [][\A r \in Req : \A row \in store :
            (/\ req[r].pc = "lookup"
             /\ req'[r].pc # "lookup"
             /\ row.fdc_id = req[r].fdcId
             /\ ~isCacheValid(row.fetched_at, now))
            => /\ req'[r].pc = "optimized"
               /\ req'[r].calls = 1
               /\ req'[r].outcome = Undefined]_vars

\* C2 witness: a request that saw a stale entry and threw after the provider
\* failed in every attempt.
C2_Witness ==
    /\ req["r1"].lookup = "stale"
    /\ req["r1"].pc = "done"
    /\ req["r1"].calls = 2 * DEFAULT_RETRIES
    /\ \E e \in {Err(m, DEFAULT_RETRIES) : m \in {"invokeError", "upstream 500", "USDA Fallback Error", "Both fetch strategies failed."}} :
          req["r1"].outcome = Some(Thrown(e))

\* The provider answer received last carried no payload.
LastAnswerFailed(q) == IsDefined(q.lastRes) /\ ~IsDefined(PayloadOf(The(q.lastRes)))

\* C3: a request not served from the cache whose optimized fetch failed and
\* whose fallback fetch of the same attempt answered with a payload does not
\* throw, returns normalizeFoodItem of that payload, and has issued one
\* upsert for the requested identifier.
C3_FallbackPayloadReturned ==
    \A r \in Req :
        (/\ req[r].pc = "done"
         /\ req[r].lastStage = "fallback"
         /\ IsDefined(PayloadOf(The(req[r].lastRes))))
        => /\ OutcomeKind(req[r]) = "return"
           /\ req[r].outcome =
                  Some(Returned(normalizeFoodItem(The(PayloadOf(The(req[r].lastRes))))))
           /\ req[r].upserts = 1
           /\ The(req[r].upsert).fdc_id = req[r].fdcId

\* C4: a request whose optimized and fallback fetches failed in every attempt
\* (all 2 * retries invocations made, the last answer a failure) has thrown,
\* has issued no upsert, and its onRetry callback, when one was given, was
\* called exactly retries - 1 times (with 1, 2 for the default retries = 3).
C4_AllAttemptsFail ==
    \A r \in Req :
        (/\ req[r].pc = "done"
         /\ req[r].calls = 2 * DEFAULT_RETRIES
         /\ LastAnswerFailed(req[r]))
        => /\ OutcomeKind(req[r]) = "throw"
           /\ req[r].upserts = 0
           /\ req[r].bg = "none"
           /\ req[r].onRetry => Len(req[r].retryArgs) = DEFAULT_RETRIES - 1
           /\ req[r].onRetry => req[r].retryArgs = <<1, 2>>

\* C4 witness: a request with a callback that threw after six failed fetches.
C4_Witness ==
    /\ req["r1"].pc = "done"
    /\ req["r1"].onRetry
    /\ req["r1"].calls = 2 * DEFAULT_RETRIES
    /\ LastAnswerFailed(req["r1"])
    /\ OutcomeKind(req["r1"]) = "throw"

\* What a request that went to the provider ends with, as a function of the
\* provider's last answer and the attempt it came in.
NetworkOutcome(q) ==
    LET payload == PayloadOf(The(q.lastRes))
    IN  IF IsDefined(payload)
        THEN IF IsDefined(The(payload).foodNutrients)
             THEN Returned(normalizeFoodItem(The(payload)))
             ELSE Thrown(Err("TypeError", q.i + 1))
        ELSE Thrown(The(FallbackFetch(The(q.lastRes), q.i + 1).thrown))

\* C5: a failed cache lookup (the store answering with an error value or with
\* no row, or the select rejecting) is not surfaced: the request goes on to
\* the provider, and when it ends its outcome is the one the provider's
\* answers determine, the same function of them for each of the three kinds
\* of failed lookup and for a plain miss.
C5_LookupFailureAbsorbed ==
    \A r \in Req :
        req[r].lookup \in {"failure", "norow", "thrown"}
        => /\ req[r].calls >= 1
           /\ req[r].pc = "done" =>
                 /\ IsDefined(req[r].lastRes)
                 /\ req[r].outcome = Some(NetworkOutcome(req[r]))

\* C5 witness: a request whose select rejected and that returned a value.
C5_Witness ==
    /\ req["r1"].lookup = "thrown"
    /\ req["r1"].pc = "done"
    /\ OutcomeKind(req["r1"]) = "return"

\* C6: however the upsert of a request ends (applied, answered with an error
\* value, or rejected), the promise of saveToCache resolves and the request
\* keeps the value it returned.
C6_CacheWriteOutcomeIgnored ==
    [][\A r \in Req :
          (req[r].bg = "pending" /\ req'[r].bg # "pending")
          => /\ req'[r].bg = "resolved"
             /\ OutcomeKind(req[r]) = "return"
             /\ req'[r].outcome = req[r].outcome
             /\ req'[r].pc = "done"]_vars

\* C6 witness: a request that returned a value and whose upsert ended without
\* the row reaching the store.
C6_Witness ==
    /\ req["r1"].bg = "resolved"
    /\ OutcomeKind(req["r1"]) = "return"
    /\ The(req["r1"].upsert) \notin store

\* C7: while the upsert of a request is unanswered the request has already
\* returned its normalized result: the return does not wait for the store.
C7_ReturnDoesNotAwaitUpsert ==
    \A r \in Req :
        req[r].bg = "pending"
        => /\ req[r].pc = "done"
           /\ OutcomeKind(req[r]) = "return"
           /\ req[r].outcome = Some(Returned(The(The(req[r].upsert).normalized_json)))

\* C7 witness: a returned request whose upsert is still in flight.
C7_Witness ==
    /\ req["r1"].bg = "pending"
    /\ req["r1"].pc = "done"
    /\ OutcomeKind(req["r1"]) = "return"
    /\ RowsFor(store, req["r1"].fdcId) # req["r1"].upsert

\* C8: under every interleaving of two getFoodDetails requests the store holds
\* at most one entry per food identifier, and for an identifier the store has
\* applied an upsert for, that entry is the upsert it applied last.
C8_OneEntryLastWriteWins ==
    /\ UniqueKey(store)
    /\ \A k \in Ids :
          applied[k] # <<>> => RowsFor(store, k) = {applied[k][Len(applied[k])]}

\* C8 witness: the store has applied two different upserts for one identifier
\* and holds the second.
C8_Witness ==
    \E k \in Ids :
        /\ Len(applied[k]) = 2
        /\ applied[k][1] # applied[k][2]
        /\ RowsFor(store, k) = {applied[k][2]}

\* C9: a request whose lookup found no entry or a stale one has issued a
\* provider invocation of its own, whatever the other request is doing, and
\* when it has returned, it returned the normalized payload of the answer it
\* received itself and has issued one upsert of its own carrying that payload.
C9_NoCoordination ==
    \A r \in Req :
        req[r].lookup \in {"norow", "stale"}
        => /\ req[r].calls >= 1
           /\ req[r].pc \in {"optimized", "fallback", "delay", "done"}
           /\ (req[r].pc = "done" /\ OutcomeKind(req[r]) = "return") =>
                 /\ req[r].outcome =
                        Some(Returned(normalizeFoodItem(The(PayloadOf(The(req[r].lastRes))))))
                 /\ req[r].upserts = 1
                 /\ The(req[r].upsert).raw_json = The(PayloadOf(The(req[r].lastRes)))
                 /\ The(req[r].upsert).fdc_id = req[r].fdcId

\* C9 witness: two requests for one identifier, both past a lookup that found
\* a stale entry, each with its own answer from the provider and its own
\* upsert in flight, the two upserts carrying different payloads.
C9_Witness ==
    /\ req["r1"].fdcId = req["r2"].fdcId
    /\ req["r1"].lookup = "stale"
    /\ req["r2"].lookup = "stale"
    /\ req["r1"].bg = "pending"
    /\ req["r2"].bg = "pending"
    /\ req["r1"].calls >= 1
    /\ req["r2"].calls >= 1
    /\ The(req["r1"].upsert).raw_json # The(req["r2"].upsert).raw_json

\* C10: the row a request sends to the store is keyed by the requested
\* identifier, carries the payload the provider returned as raw payload, its
\* normalized payload is normalizeFoodItem of that raw payload, its grouping
\* string is the normalized payload's visual_parent, its data-type tag is the
\* raw payload's dataType, and its capture timestamp is the clock value of the
\* step that issued the write; every row the store applied is keyed and
\* consistent in the same way.
C10_WrittenEntryConsistent ==
    /\ [](\A k \in Ids : \A n \in 1..Len(applied[k]) :
            LET row == applied[k][n]
            IN  /\ row.fdc_id = k
                /\ row.normalized_json = Some(normalizeFoodItem(row.raw_json))
                /\ row.visual_parent = Some(normalizeFoodItem(row.raw_json).visual_parent)
                /\ row.data_type = row.raw_json.dataType
                /\ row.fetched_at.ok)
    /\ [][\A r \in Req :
            (req[r].upsert = Undefined /\ req'[r].upsert # Undefined)
            => LET row == The(req'[r].upsert)
               IN  /\ row.fdc_id = req[r].fdcId
                   /\ row.raw_json = The(PayloadOf(The(req'[r].lastRes)))
                   /\ row.normalized_json = Some(normalizeFoodItem(row.raw_json))
                   /\ row.visual_parent = Some(normalizeFoodItem(row.raw_json).visual_parent)
                   /\ row.data_type = row.raw_json.dataType
                   /\ row.fetched_at = [ok |-> TRUE, day |-> now.day, ms |-> now.ms]]_vars

\* C10 witness: the store has applied a row written after the clock advanced,
\* for a requested identifier that differs from the payload's own fdcId.
C10_Witness ==
    \E k \in Ids :
        /\ applied[k] # <<>>
        /\ applied[k][1].raw_json.fdcId # k
        /\ applied[k][1].fetched_at # toISOString(Epoch)

\* A provider answer that makes the search operation throw.
SearchFailed(res) ==
    res.invokeError \/ ~IsDefined(res.proxyRes) \/ ~The(res.proxyRes).success

\* C13 as stated: a searchFoods call makes a single provider invocation,
\* never reads or writes the store, and ends by throwing as soon as that
\* invocation fails.
C13_SearchSingleInvocation ==
    \A r \in Req : req[r].op = "search" =>
        /\ req[r].calls <= 1
        /\ req[r].lookup = "none"
        /\ req[r].upserts = 0
        /\ (IsDefined(req[r].lastRes) /\ SearchFailed(The(req[r].lastRes)))
              => (req[r].pc = "done" /\ OutcomeKind(req[r]) = "throw")

\* C13 amended: a searchFoods call makes one provider invocation per attempt
\* of withRetry, at most DEFAULT_RETRIES in all, and stops at the first that
\* succeeds, returning its page; it never reads or writes the store and has
\* no fallback invocation; a failed invocation is retried, and when the last
\* attempt fails too, the error of that attempt is thrown to the caller.
C13_SearchInvocationPerAttempt ==
    /\ [](\A r \in Req : req[r].op = "search" =>
            /\ req[r].calls = req[r].i + 1
            /\ req[r].calls <= DEFAULT_RETRIES
            /\ req[r].lookup = "none"
            /\ req[r].upserts = 0
            /\ req[r].bg = "none"
            /\ req[r].lastStage \in {"none", "search"}
            /\ (req[r].pc # "done" /\ IsDefined(req[r].lastRes))
                  => SearchFailed(The(req[r].lastRes))
            /\ req[r].pc = "done" =>
                  IF SearchFailed(The(req[r].lastRes))
                  THEN /\ req[r].calls = DEFAULT_RETRIES
                       /\ OutcomeKind(req[r]) = "throw"
                       /\ The(req[r].outcome).error.attempt = DEFAULT_RETRIES
                  ELSE req[r].outcome =
                          Some(Returned(The(The(req[r].lastRes).proxyRes).data)))
    /\ [][(\E r \in Req : req'[r].op = "search") => store' = store]_vars

\* C13 witness: a search that threw after three failed invocations, and had
\* reported the two retries.
C13_Witness ==
    /\ req["r1"].op = "search"
    /\ req["r1"].pc = "done"
    /\ OutcomeKind(req["r1"]) = "throw"
    /\ req["r1"].calls = DEFAULT_RETRIES
    /\ req["r1"].retryArgs = <<1, 2>>

\* C12: when the store answers a getFoodDetails request with an entry whose
\* capture timestamp does not parse, the cache check ends as a miss without
\* ending the request: the request goes on to its first provider invocation;
\* and a request that ended without issuing an upsert while such an entry is
\* stored was not served from it, it threw after a provider invocation.
C12_MalformedTimestampIsMiss ==
    /\ [][\A r \in Req : \A row \in store :
            (AnsweredWithRow(r, row) /\ ~row.fetched_at.ok)
            => /\ req'[r].lookup = "stale"
               /\ req'[r].pc = "optimized"
               /\ req'[r].calls = 1
               /\ req'[r].outcome = Undefined]_vars
    /\ [](\A r \in Req : \A row \in store :
            (/\ req[r].op = "details"
             /\ req[r].pc = "done"
             /\ req[r].lookup \notin {"failure", "thrown"}
             /\ req[r].bg = "none"
             /\ row.fdc_id = req[r].fdcId
             /\ ~row.fetched_at.ok)
            => /\ req[r].calls >= 1
               /\ OutcomeKind(req[r]) = "throw")

\* C12 witness: a request that found an entry with an unparseable timestamp
\* and was served by the network.
C12_Witness ==
    /\ req["r1"].lookup = "stale"
    /\ req["r1"].pc = "done"
    /\ OutcomeKind(req["r1"]) = "return"
    /\ req["r1"].calls >= 1
    /\ \E row \in InitialRows :
          ~row.fetched_at.ok /\ applied[1] = <<>> /\ store = {row}

\* The outcome of the function applied in SpecFn, when it returned.
FnApplied(op) == fn.op = op /\ ~The(fn.out).thrown
FnValue == The(The(fn.out).value)

Carries(n, id) ==
    n.nutrientId = Some(id) \/ (IsDefined(n.nutrient) /\ The(n.nutrient).id = id)

\* The positions of list whose entry carries id.
Carrying(list, id) == {k \in 1..Len(list) : Carries(list[k], id)}

\* The quantity an entry stands for: its amount when it has one, else its
\* value, rounded to two decimals (thousandths to tens); 0 when it has none.
QuantityOf(n) ==
    LET raw == IF n.amount # Undefined THEN n.amount ELSE n.value
    IN  IF raw = Undefined THEN 0
        ELSE LET v == The(raw)
             IN  IF v % 10 >= 5 THEN v - (v % 10) + 10 ELSE v - (v % 10)

\* The first candidate of ids, by position, that some entry of list carries.
EarliestCandidate(list, ids) ==
    LET cs == {j \in 1..Len(ids) : Carrying(list, ids[j]) # {}}
    IN  IF cs = {} THEN Undefined
        ELSE Some(ids[CHOOSE j \in cs : \A i \in cs : j <= i])

\* C14: when some candidate is carried by an entry, getValue returns the
\* quantity of an entry carrying the earliest such candidate of the list,
\* wherever the entries stand in the record; and energy_kcal of
\* normalizeFoodItem is the quantity of a direct (1008) entry when there is
\* one, else of a specific (2048) entry, else of a general (2047) entry.
C14_EarliestCandidateWins ==
    /\ FnApplied("getValue") =>
          LET list == The(The(fn.arg).food.foodNutrients)
              c == EarliestCandidate(list, The(fn.arg).possibleIds)
          IN  c # Undefined =>
                 FnValue \in {QuantityOf(list[k]) : k \in Carrying(list, The(c))}
    /\ FnApplied("normalizeFoodItem") =>
          LET list == The(The(fn.arg).foodNutrients)
              from(id) == {QuantityOf(list[k]) : k \in Carrying(list, id)}
          IN  IF from(1008) # {} THEN FnValue.energy_kcal \in from(1008)
              ELSE IF from(2048) # {} THEN FnValue.energy_kcal \in from(2048)
              ELSE from(2047) # {} => FnValue.energy_kcal \in from(2047)

\* C14 witness: a record that lists a specific estimate of 50 before a direct
\* value of 52.004, normalized to energy_kcal 52.
C14_Witness ==
    /\ FnApplied("normalizeFoodItem")
    /\ The(The(fn.arg).foodNutrients) =
          <<NestedEntry(ENERGY_ATWATER_SPECIFIC, 50000), NestedEntry(ENERGY_KCAL, 52004)>>
    /\ FnValue.energy_kcal = 52000

\* C15: when the first entry carrying the earliest carried candidate has a
\* zero or missing quantity, getValue returns 0, whatever later candidates
\* carry.
C15_ZeroMatchStops ==
    FnApplied("getValue") =>
        LET list == The(The(fn.arg).food.foodNutrients)
            c == EarliestCandidate(list, The(fn.arg).possibleIds)
        IN  c # Undefined =>
               LET ks == Carrying(list, The(c))
                   first == list[CHOOSE k \in ks : \A j \in ks : k <= j]
               IN  QuantityOf(first) = 0 => FnValue = 0

\* C15 witness: the direct entry has amount 0, a later candidate's entry has
\* 50, and getValue returned 0.
C15_Witness ==
    /\ FnApplied("getValue")
    /\ The(fn.arg).possibleIds = EnergyIds
    /\ The(The(fn.arg).food.foodNutrients) =
          <<NestedEntry(ENERGY_ATWATER_SPECIFIC, 50000),
            Entry(ENERGY_KCAL, FALSE, Some(0), Some(7000))>>
    /\ FnValue = 0

\* C16: when no entry of the record carries any candidate, the list being
\* empty or not, getValue returns 0.
C16_NoMatchIsZero ==
    FnApplied("getValue") =>
        LET list == The(The(fn.arg).food.foodNutrients)
        IN  EarliestCandidate(list, The(fn.arg).possibleIds) = Undefined
               => FnValue = 0

\* C16 witness: a record with a protein entry only, asked for energy.
C16_Witness ==
    /\ FnApplied("getValue")
    /\ The(fn.arg).possibleIds = EnergyIds
    /\ The(The(fn.arg).food.foodNutrients) = <<FlatEntry(PROTEIN, 1235)>>
    /\ FnValue = 0

\* The amounts of the entries of a search-index nutrient list that have the
\* number and a non-zero amount.
AmountsOf(list, number) ==
    {The(list[k].amount) : k \in {j \in 1..Len(list) :
        /\ list[j].nutrientNumber = Some(number)
        /\ list[j].amount # Undefined
        /\ list[j].amount # Some(0)}}

\* C17: energy_kcal of normalizeTilesFoodDetailsRow is the amount of a direct
\* kilocalorie entry (number 208) when the row has one with a value, else
\* that of a specific estimate (958), else that of a general estimate (957),
\* for rows that list each nutrient number once.
C17_IndexEnergyPriority ==
    FnApplied("normalizeTilesFoodDetailsRow") =>
        LET list == IF The(fn.arg).nutrients = Undefined THEN <<>>
                    ELSE The(The(fn.arg).nutrients)
            direct == AmountsOf(list, <<"2", "0", "8">>)
            specific == AmountsOf(list, <<"9", "5", "8">>)
            general == AmountsOf(list, <<"9", "5", "7">>)
            once == \A i, j \in 1..Len(list) :
                        list[i].nutrientNumber = list[j].nutrientNumber => i = j
        IN  once =>
               IF direct # {} THEN FnValue.energy_kcal \in direct
               ELSE IF specific # {} THEN FnValue.energy_kcal \in specific
               ELSE general # {} => FnValue.energy_kcal \in general

\* C18: each of the seven macro fields of a food normalizeFoodItem returned
\* is a number greater than or equal to 0.
C18_MacrosNonNegative ==
    FnApplied("normalizeFoodItem") =>
        \A v \in {FnValue.energy_kcal, FnValue.protein_g, FnValue.fat_g,
                   FnValue.carbs_g, FnValue.sugar_g, FnValue.fiber_g,
                   FnValue.sodium_mg} :
            v \in Int /\ v >= 0

\* C19: unitDescription of normalizeFoodPortion is the portion description
\* when that is a non-empty string, else the modifier when non-empty, else
\* the measure unit's name when non-empty, else the literal 'Einheit'; it is
\* never the empty string; an empty description with modifier "cup" and a
\* measure unit name gives "cup".
C19_UnitDescriptionOrder ==
    FnApplied("normalizeFoodPortion") =>
        LET p == The(fn.arg)
            nonEmpty(x) == x # Undefined /\ x # Some(<<>>)
            u == FnValue.unitDescription
        IN  /\ u # <<>>
            /\ nonEmpty(p.portionDescription) => u = The(p.portionDescription)
            /\ (~nonEmpty(p.portionDescription) /\ nonEmpty(p.modifier))
                  => u = The(p.modifier)
            /\ (~nonEmpty(p.portionDescription) /\ ~nonEmpty(p.modifier)
                   /\ nonEmpty(p.measureUnit))
                  => u = The(p.measureUnit)
            /\ (~nonEmpty(p.portionDescription) /\ ~nonEmpty(p.modifier)
                   /\ ~nonEmpty(p.measureUnit))
                  => u = <<"E", "i", "n", "h", "e", "i", "t">>
            /\ (/\ p.portionDescription = Some(<<>>)
                /\ p.modifier = Some(<<"c", "u", "p">>)
                /\ nonEmpty(p.measureUnit))
                  => u = <<"c", "u", "p">>

\* C19 witness: the portion with an empty description, modifier "cup" and
\* measure unit "u", normalized to "cup".
C19_Witness ==
    /\ FnApplied("normalizeFoodPortion")
    /\ The(fn.arg).portionDescription = Some(<<>>)
    /\ The(fn.arg).modifier = Some(<<"c", "u", "p">>)
    /\ The(fn.arg).measureUnit = Some(<<"u">>)
    /\ FnValue.unitDescription = <<"c", "u", "p">>

\* C20: in normalizeTilesFoodDetailsRow, a portion whose description is
\* empty or missing and that has both a modifier and a measurement-unit name
\* gets the modifier as its unit description.
C20_IndexUnitDescriptionOrder ==
    FnApplied("normalizeTilesFoodDetailsRow") =>
        LET ps == IF The(fn.arg).portions = Undefined THEN <<>>
                  ELSE The(The(fn.arg).portions)
            nonEmpty(x) == x # Undefined /\ x # Some(<<>>)
        IN  \A k \in 1..Len(ps) :
               (/\ ~nonEmpty(ps[k].portionDescription)
                /\ nonEmpty(ps[k].modifier)
                /\ nonEmpty(ps[k].measureUnitName))
               => FnValue.portions[k].unitDescription = The(ps[k].modifier)

\* The index of the first comma of s, or one past its end when it has none.
FirstComma(s) ==
    IF \E k \in 1..Len(s) : s[k] = ","
    THEN CHOOSE k \in 1..Len(s) : s[k] = "," /\ \A j \in 1..(k - 1) : s[j] # ","
    ELSE Len(s) + 1

\* C21: generateVisualParent returns "food" when the description is missing
\* or empty; otherwise it returns the part of the description before its
\* first comma, without the spaces at either end and with capitals made
\* small, so "Apples, raw, fuji" gives "apples".
C21_VisualParentFirstSegment ==
    FnApplied("generateVisualParent") =>
        LET d == The(fn.arg)
            v == FnValue
        IN  IF d = Undefined \/ d = Some(<<>>)
            THEN v = <<"f", "o", "o", "d">>
            ELSE LET seg == SubSeq(The(d), 1, FirstComma(The(d)) - 1)
                 IN  /\ \E a, b \in 0..Len(seg) :
                          /\ a + b <= Len(seg)
                          /\ Len(v) = Len(seg) - a - b
                          /\ \A k \in 1..a : seg[k] = " "
                          /\ \A k \in (Len(seg) - b + 1)..Len(seg) : seg[k] = " "
                          /\ \A k \in 1..Len(v) :
                                v[k] = IF seg[a + k] = "A" THEN "a" ELSE seg[a + k]
                     /\ v # <<>> => (v[1] # " " /\ v[Len(v)] # " ")
                     /\ d = Some(Str_ApplesRawFuji)
                          => v = <<"a", "p", "p", "l", "e", "s">>

\* C21 witness: "Apples, raw, fuji" has been given and "apples" returned.
C21_Witness ==
    /\ FnApplied("generateVisualParent")
    /\ The(fn.arg) = Some(Str_ApplesRawFuji)
    /\ FnValue = <<"a", "p", "p", "l", "e", "s">>

\* C22: normalizeFoodItem and normalizeTilesFoodDetailsRow both give the
\* result the upstream category name as its category when the input has one,
\* and "Unknown" when it has none.
C22_CategoryOrUnknown ==
    LET resolved(name) ==
            IF name # Undefined /\ name # Some(<<>>)
            THEN FnValue.category = The(name)
            ELSE FnValue.category = <<"U", "n", "k", "n", "o", "w", "n">>
    IN  /\ FnApplied("normalizeFoodItem") =>
            resolved(IF The(fn.arg).foodCategory = Undefined THEN Undefined
                     ELSE Some(The(The(fn.arg).foodCategory).description))
        /\ FnApplied("normalizeTilesFoodDetailsRow") =>
            resolved(The(fn.arg).food_category)

\* C23: normalizeFoodItem does not throw on any record; a record without a
\* nutrient list gives macro fields 0 and an empty nutrient list, a record
\* without a portion list gives no portions, and a record without a
\* description gives the grouping key "food".
C23_NormalizeFoodItemTotal ==
    fn.op = "normalizeFoodItem" =>
        /\ ~The(fn.out).thrown
        /\ The(fn.arg).foodNutrients = Undefined =>
              /\ FnValue.energy_kcal = 0
              /\ FnValue.protein_g = 0
              /\ FnValue.fat_g = 0
              /\ FnValue.carbs_g = 0
              /\ FnValue.foodNutrients = <<>>
        /\ The(fn.arg).foodPortions = Undefined => FnValue.portions = <<>>
        /\ The(fn.arg).description = Undefined =>
              FnValue.visual_parent = <<"f", "o", "o", "d">>

\* The operation handed to withRetry failed on the provider's last answer.
OperationFailed(q) ==
    IF q.op = "search" THEN SearchFailed(The(q.lastRes))
    ELSE q.lastStage = "fallback" /\ LastAnswerFailed(q)

\* C24: withRetry runs its operation at most retries (3) times and not again
\* after a success; the onRetry callback has been called once for each failed
\* attempt that another attempt follows, with 1, 2, ... in order, so never
\* before the first attempt, after the last failed attempt or after a
\* success; and the pause is taken only after a failed attempt that is not
\* the last.
C24_RetryDiscipline ==
    \A r \in Req :
        LET q == req[r]
            pauses == IF q.pc = "delay" THEN q.i + 1 ELSE q.i
        IN  /\ q.i + 1 <= DEFAULT_RETRIES
            /\ q.op = "search" => q.calls <= DEFAULT_RETRIES
            /\ q.op = "details" => q.calls <= 2 * (q.i + 1)
            /\ q.retryArgs = IF q.onRetry THEN [k \in 1..pauses |-> k] ELSE <<>>
            /\ Len(q.retryArgs) <= DEFAULT_RETRIES - 1
            /\ q.pc = "delay" =>
                  /\ q.i < DEFAULT_RETRIES - 1
                  /\ OperationFailed(q)
                  /\ q.outcome = Undefined
            /\ (q.calls > 0 /\ q.pc \in {"optimized", "search"} /\ q.i > 0) =>
                  OperationFailed(q)
            /\ (q.pc = "done" /\ q.calls > 0 /\ ~OperationFailed(q)) =>
                  Len(q.retryArgs) = IF q.onRetry THEN q.i ELSE 0
            /\ (q.pc = "done" /\ q.calls > 0 /\ OperationFailed(q)) =>
                  /\ q.i = DEFAULT_RETRIES - 1
                  /\ OutcomeKind(q) = "throw"

\* C24 witness: a request with a callback whose first attempt failed and
\* whose second succeeded and returned; the callback was called once, with 1.
C24_Witness ==
    /\ req["r1"].pc = "done"
    /\ req["r1"].onRetry
    /\ req["r1"].i = 1
    /\ OutcomeKind(req["r1"]) = "return"
    /\ req["r1"].retryArgs = <<1>>

\* C25: when every attempt of withRetry failed, the error thrown is the one
\* the last attempt raised; for getFoodDetails it is the error of the last
\* attempt's fallback fetch, whose message the fallback answer determines,
\* not an error of an optimized fetch or of an earlier attempt.
C25_LastErrorThrown ==
    \A r \in Req :
        LET q == req[r]
            res == The(q.lastRes)
        IN  (q.pc = "done" /\ q.calls > 0 /\ OperationFailed(q)) =>
               /\ OutcomeKind(q) = "throw"
               /\ The(q.outcome).error.attempt = DEFAULT_RETRIES
               /\ q.op = "details" =>
                     /\ q.lastStage = "fallback"
                     /\ q.calls = 2 * DEFAULT_RETRIES
                     /\ The(q.outcome).error.msg =
                          IF res.invokeError THEN "invokeError"
                          ELSE IF res.proxyRes = Undefined THEN "USDA Fallback Error"
                          ELSE IF ~The(res.proxyRes).success THEN "upstream 500"
                          ELSE "Both fetch strategies failed."

\* C25 witness: a getFoodDetails request threw after three failed attempts,
\* the last fallback fetch answering success without data.
C25_Witness ==
    /\ req["r1"].pc = "done"
    /\ req["r1"].op = "details"
    /\ req["r1"].calls = 2 * DEFAULT_RETRIES
    /\ req["r1"].lastRes = Some(ResEmpty)
    /\ req["r1"].outcome = Some(Thrown(Err("Both fetch strategies failed.", DEFAULT_RETRIES)))

\* C26: whenever the last provider answer was to the optimized fetch and was
\* a failure of any kind (invocation error, no response, success = false,
\* success = true without data), the request has not ended and is awaiting
\* the fallback fetch of the same attempt, issued as the next invocation,
\* with no callback call and no pause in between.
C26_OptimizedFailureAbsorbed ==
    \A r \in Req :
        LET q == req[r]
        IN  (/\ q.lastStage = "optimized"
             /\ The(q.lastRes) \in {ResInvokeError, ResNull, ResFail, ResEmpty})
            => /\ q.pc = "fallback"
               /\ q.outcome = Undefined
               /\ q.calls = 2 * q.i + 2
               /\ Len(q.retryArgs) = IF q.onRetry THEN q.i ELSE 0
               /\ q.upserts = 0

\* C26 witness: the optimized fetch of the first attempt answered success
\* without data and the fallback fetch is awaited.
C26_Witness ==
    /\ req["r1"].lastStage = "optimized"
    /\ req["r1"].lastRes = Some(ResEmpty)
    /\ req["r1"].pc = "fallback"
    /\ req["r1"].i = 0

\* C27 as stated: the fallback fetch is awaited only once the optimized
\* fetch has been tried retries times, and a failed fallback fetch has
\* reached the caller only after the last attempt.
C27_OptimizedRetriedBeforeFallback ==
    \A r \in Req :
        LET q == req[r]
        IN  /\ q.pc = "fallback" => q.i + 1 >= DEFAULT_RETRIES
            /\ (q.pc = "done" /\ q.lastStage = "fallback" /\ LastAnswerFailed(q))
                  => q.i + 1 = DEFAULT_RETRIES

\* C27, amended: a failed optimized fetch is not retried on its own; the
\* fallback fetch is awaited right after the failed optimized fetch of the
\* same attempt (as invocation 2i + 2 of attempt i), each new attempt starts
\* with the optimized fetch again, and a failed fallback fetch has reached
\* the caller only after the last of the retries attempts; before that the
\* request has no outcome.
C27_FallbackInSameAttempt ==
    \A r \in Req :
        LET q == req[r]
        IN  /\ q.pc = "fallback" =>
                  /\ q.lastStage = "optimized"
                  /\ LastAnswerFailed(q)
                  /\ q.calls = 2 * (q.i + 1)
            /\ q.pc = "optimized" =>
                  /\ q.calls = 2 * q.i + 1
                  /\ q.i > 0 => (q.lastStage = "fallback" /\ LastAnswerFailed(q))
            /\ (q.lastStage = "fallback" /\ LastAnswerFailed(q)) =>
                  \/ q.outcome = Undefined /\ q.pc \in {"delay", "optimized"}
                  \/ /\ q.pc = "done"
                     /\ OutcomeKind(q) = "throw"
                     /\ q.i + 1 = DEFAULT_RETRIES
                     /\ q.calls = 2 * DEFAULT_RETRIES

\* C27 witness: the fallback fetch of the second attempt is awaited, as the
\* fourth invocation, after the optimized fetch failed once in that attempt.
C27_Witness ==
    /\ req["r1"].pc = "fallback"
    /\ req["r1"].i = 1
    /\ req["r1"].calls = 4
    /\ req["r1"].lastStage = "optimized"

\* C28: a getFoodDetails request looks the store up once, before its first
\* provider invocation: while the select is awaited no invocation, attempt,
\* callback call or earlier answer of the select exists, and every request
\* that has invoked the provider, is pausing between attempts or has ended
\* has had its one answer.
C28_SingleLookupFirst ==
    \A r \in Req :
        LET q == req[r]
        IN  /\ q.pc = "lookup" =>
                  /\ q.lookup = "none"
                  /\ q.calls = 0
                  /\ q.i = 0
                  /\ q.retryArgs = <<>>
                  /\ q.lastStage = "none"
            /\ (q.op = "details" /\ q.pc \in {"optimized", "fallback", "delay", "done"})
                  => q.lookup # "none"
            /\ (q.op = "details" /\ q.calls > 0) =>
                  q.lookup \in {"stale", "legacyThrow", "norow", "failure", "thrown"}

\* C28 witness: a request in its third attempt whose only lookup found a
\* stale entry.
C28_Witness ==
    /\ req["r1"].op = "details"
    /\ req["r1"].pc = "optimized"
    /\ req["r1"].i = 2
    /\ req["r1"].lookup = "stale"

\* C29: a request that returned a network result has issued exactly one
\* upsert; a request served from the cache, a request that threw and a
\* searchFoods request have issued none; and the store changes only when it
\* applies the upsert of a request that returned a network result, which
\* puts that request's row in place of the entry for its identifier and
\* removes the entry of no identifier.
C29_StoreWrittenOnlyByUpsert ==
    /\ [](\A r \in Req :
            LET q == req[r]
            IN  /\ q.upserts <= 1
                /\ q.upserts = 1 <=>
                      /\ q.op = "details"
                      /\ q.pc = "done"
                      /\ OutcomeKind(q) = "return"
                      /\ q.calls > 0
                /\ q.upserts = 0 => (q.bg = "none" /\ q.upsert = Undefined)
                /\ q.lookup \in {"hit", "hitLegacy"} => q.upserts = 0
                /\ OutcomeKind(q) = "throw" => q.upserts = 0
                /\ q.op = "search" => q.upserts = 0)
    /\ [][store' # store =>
            \E r \in Req :
               /\ req[r].bg = "pending"
               /\ req[r].upserts = 1
               /\ OutcomeKind(req[r]) = "return"
               /\ req[r].calls > 0
               /\ The(req[r].upsert).fdc_id = req[r].fdcId
               /\ store' = {row \in store : row.fdc_id # req[r].fdcId}
                              \cup {The(req[r].upsert)}
               /\ {row.fdc_id : row \in store} \subseteq {row.fdc_id : row \in store'}]_vars

\* C29 witness: a request that found a stale entry has thrown, has issued no
\* upsert, and the stale entry is still the store's entry for its identifier.
C29_Witness ==
    /\ req["r1"].pc = "done"
    /\ req["r1"].lookup = "stale"
    /\ OutcomeKind(req["r1"]) = "throw"
    /\ req["r1"].upserts = 0
    /\ \E row \in store :
          /\ row.fdc_id = req["r1"].fdcId
          /\ ~isCacheValid(row.fetched_at, now)

\* C30: when every store access and provider invocation is answered, every
\* getFoodDetails request that was made ends, by returning or by throwing;
\* and at no point has a request made more than 2 * retries (6) provider
\* invocations or begun more than retries - 1 (2) pauses.
C30_DetailsTerminates ==
    /\ [](\A r \in Req : req[r].op = "details" =>
            /\ req[r].calls <= 2 * DEFAULT_RETRIES
            /\ (IF req[r].pc = "delay" THEN req[r].i + 1 ELSE req[r].i)
                  <= DEFAULT_RETRIES - 1)
    /\ \A r \in Req :
          (req[r].op = "details" /\ req[r].pc # "idle")
             ~> (req[r].pc = "done" /\ OutcomeKind(req[r]) \in {"return", "throw"})

\* C30 witness: a request ended by throwing after six invocations and two
\* pauses, its lookup having failed.
C30_Witness ==
    /\ req["r1"].op = "details"
    /\ req["r1"].pc = "done"
    /\ req["r1"].lookup = "failure"
    /\ req["r1"].calls = 2 * DEFAULT_RETRIES
    /\ req["r1"].i = DEFAULT_RETRIES - 1
    /\ OutcomeKind(req["r1"]) = "throw"

\* The amount of the first entry of list at one of the positions hits, 0 when
\* that entry has no amount.
FirstAmount(list, hits) ==
    LET n == list[CHOOSE k \in hits : \A j \in hits : k <= j]
    IN  IF n.amount = Undefined THEN 0 ELSE The(n.amount)

\* C31: in normalizeTilesFoodDetailsRow a macro (protein, fat) is the amount
\* of the first entry carrying the macro's translated nutrient number ("203",
\* "204"), taken as 0 when that entry's amount is zero or missing, whatever
\* an entry carrying the direct identifier (1003, 1004) says; only when no
\* entry carries the number is it the amount of the first entry carrying the
\* direct identifier; and it is 0 when no entry carries either.
C31_TranslatedNumberFirst ==
    (FnApplied("normalizeTilesFoodDetailsRow") /\ The(fn.arg).nutrients # Undefined) =>
        LET list == The(The(fn.arg).nutrients)
            at(s) == {k \in 1..Len(list) : list[k].nutrientNumber = Some(s)}
            macro(number, id) ==
                IF at(number) # {} THEN FirstAmount(list, at(number))
                ELSE IF at(id) # {} THEN FirstAmount(list, at(id))
                ELSE 0
        IN  /\ FnValue.protein_g = macro(<<"2", "0", "3">>, <<"1", "0", "0", "3">>)
            /\ FnValue.fat_g = macro(<<"2", "0", "4">>, <<"1", "0", "0", "4">>)
            /\ FnValue.carbs_g = 0

\* C31 witness: a row listing protein by identifier with an amount and then
\* by number with a zero amount; its protein is 0.
C31_Witness ==
    /\ FnApplied("normalizeTilesFoodDetailsRow")
    /\ The(fn.arg).nutrients =
          Some(<<IndexEntry(Some(<<"1", "0", "0", "3">>), Some(2000)),
                 IndexEntry(Some(<<"2", "0", "3">>), Some(0))>>)
    /\ FnValue.protein_g = 0

C33_OneOptimizedThenFallback ==
    [][\A r \in Req :
          LET q == req[r]
              p == req'[r]
          IN  (q.op = "details" /\ p.op = "details" /\ p # q) =>
                /\ (p.pc = "optimized") =>
                      /\ q.pc \in {"lookup", "delay"}
                      /\ p.calls = q.calls + 1
                      /\ p.i = IF q.pc = "delay" THEN q.i + 1 ELSE 0
                /\ (p.pc = "fallback") =>
                      /\ q.pc = "optimized"
                      /\ p.calls = q.calls + 1
                      /\ p.i = q.i
                      /\ PayloadOf(The(p.lastRes)) = Undefined
                /\ (q.pc = "optimized" /\ PayloadOf(The(p.lastRes)) # Undefined) =>
                      /\ p.pc = "done"
                      /\ p.calls = q.calls
                /\ (q.pc = "fallback") =>
                      /\ p.pc \in {"delay", "done"}
                      /\ p.calls = q.calls
                      /\ p.i = q.i
                /\ p.calls # q.calls => p.pc \in {"optimized", "fallback"}]_vars

\* C33 witness: the optimized fetch of the second attempt answered with a
\* payload and the request returned after three invocations: two optimized
\* fetches and the fallback fetch of the first attempt.
C33_Witness ==
    /\ req["r1"].op = "details"
    /\ req["r1"].pc = "done"
    /\ req["r1"].lastStage = "optimized"
    /\ req["r1"].i = 1
    /\ req["r1"].calls = 3
    /\ OutcomeKind(req["r1"]) = "return"

\* a is not later than b, for two capture timestamps that parse.
NotLater(a, b) == a.day < b.day \/ (a.day = b.day /\ a.ms <= b.ms)

\* C34 as stated: in no step does the capture timestamp stored for an
\* identifier become an earlier one.
C34_TimestampNeverDecreases ==
    [][\A k \in Ids : \A old \in RowsFor(store, k) : \A new \in RowsFor(store', k) :
          (old.fetched_at.ok /\ new.fetched_at.ok)
             => NotLater(old.fetched_at, new.fetched_at)]_vars

\* C34, amended: the entry stored for an identifier is the row of the upsert
\* the store applied last, whatever its timestamp; the stored capture
\* timestamp becomes an earlier one only in a step that applies the pending
\* upsert of one request over the row that another request, overlapping the
\* first, issued later and had applied earlier, or over an entry no request
\* of the behaviour wrote and that is stamped later than the clock; in every
\* other step it stays or grows.
C34_DecreaseOnlyOutOfOrder ==
    [][\A k \in Ids : \A old \in RowsFor(store, k) : \A new \in RowsFor(store', k) :
          (old.fetched_at.ok /\ new.fetched_at.ok /\ new # old) =>
             /\ applied'[k] = Append(applied[k], new)
             /\ \/ NotLater(old.fetched_at, new.fetched_at)
                \/ \E a \in Req : \E b \in Req \ {a} :
                      /\ req[a].bg = "pending" /\ req[a].upsert = Some(new)
                      /\ req[b].bg = "resolved" /\ req[b].upsert = Some(old)
                      /\ applied[k] # <<>>
                      /\ applied[k][Len(applied[k])] = old
                \/ /\ applied[k] = <<>>
                   /\ ~NotLater(old.fetched_at, [day |-> now.day, ms |-> now.ms])]_vars

\* C34 witness: the store applied two upserts for one identifier, the second
\* carrying the earlier capture timestamp, and holds the second.
C34_Witness ==
    \E k \in Ids :
        /\ Len(applied[k]) = 2
        /\ ~NotLater(applied[k][1].fetched_at, applied[k][2].fetched_at)
        /\ RowsFor(store, k) = {applied[k][2]}

\* From instant a to the later instant b is at most 30 days.
WithinWindow(a, b) ==
    \/ b.day - a.day < 30
    \/ (b.day - a.day = 30 /\ b.ms <= a.ms)

C36_OlderEntryNormalizedOnRead ==
    /\ [][\A r \in Req : \A row \in store :
            (/\ AnsweredWithRow(r, row)
             /\ row.fetched_at.ok
             /\ NotLater(row.fetched_at, now) /\ WithinWindow(row.fetched_at, now)
             /\ row.normalized_json = Undefined
             /\ row.raw_json.foodNutrients # Undefined)
            => /\ req'[r].pc = "done"
               /\ req'[r].outcome = Some(Returned(normalizeFoodItem(row.raw_json)))
               /\ The(req'[r].outcome).value.energy_kcal = 52000
               /\ req'[r].calls = 0
               /\ req'[r].upserts = 0
               /\ req'[r].bg = "none"
               /\ store' = store]_vars
    /\ [](\A r \in Req : req[r].lookup = "hitLegacy" =>
            /\ req[r].pc = "done" /\ req[r].calls = 0 /\ req[r].upserts = 0
            /\ \E row \in store :
                  /\ row.fdc_id = req[r].fdcId
                  /\ row.normalized_json = Undefined
                  /\ req[r].outcome = Some(Returned(normalizeFoodItem(row.raw_json))))

\* C36 witness: a request was served from a one-day-old entry without a
\* normalized payload, and the entry is still stored as it was.
C36_Witness ==
    /\ req["r1"].pc = "done"
    /\ req["r1"].lookup = "hitLegacy"
    /\ req["r1"].calls = 0
    /\ store = {Row(1, FoodNested, DaysBefore(Epoch, 1), Undefined)}
    /\ req["r1"].outcome = Some(Returned(normalizeFoodItem(FoodNested)))

\* C37: a request that returned a network result returned the normalized
\* form of a payload the provider sent, and the row of its upsert holds that
\* payload; and after a fallback answer of success without data the request
\* has returned nothing and issued no upsert: the attempt failed with "Both
\* fetch strategies failed.", which is retried like any failure (a pause,
\* then the next attempt) and, in the last attempt, thrown to the caller.
C37_EmptyPayloadNeverServed ==
    \A r \in Req :
        LET q == req[r]
            failure == Err("Both fetch strategies failed.", q.i + 1)
        IN  /\ (q.op = "details" /\ OutcomeKind(q) = "return" /\ q.calls > 0) =>
                  /\ PayloadOf(The(q.lastRes)) # Undefined
                  /\ q.upsert # Undefined
                  /\ The(q.upsert).raw_json = The(PayloadOf(The(q.lastRes)))
                  /\ The(q.upsert).normalized_json = Some(The(q.outcome).value)
            /\ (q.lastStage = "fallback" /\ q.lastRes = Some(ResEmpty)) =>
                  /\ q.upserts = 0
                  /\ OutcomeKind(q) # "return"
                  /\ q.pc = "delay" =>
                        (q.lastError = Some(failure) /\ q.i + 1 < DEFAULT_RETRIES)
                  /\ q.pc = "done" =>
                        (q.outcome = Some(Thrown(failure)) /\ q.i + 1 = DEFAULT_RETRIES)
                  /\ q.pc \in {"delay", "optimized", "done"}

\* C37 witness: the fallback fetch of the first attempt answered success
\* without data and the request is pausing before its second attempt.
C37_Witness ==
    /\ req["r1"].pc = "delay"
    /\ req["r1"].i = 0
    /\ req["r1"].lastStage = "fallback"
    /\ req["r1"].lastRes = Some(ResEmpty)
    /\ req["r1"].lastError = Some(Err("Both fetch strategies failed.", 1))

\* C38: in the FoodDetails component, when the route identifier changed while
\* the earlier detail request was in flight, then once both requests have
\* completed the displayed food and error are the outcome of the request for
\* the most recent identifier: its value with no error if it returned, its
\* message if it threw.
C38_LatestRouteDisplayed ==
    (req["r1"].pc = "done" /\ req["r2"].pc = "done") =>
        LET o == The(req[LatestRun].outcome)
        IN  IF o.kind = "return"
            THEN view.food = Some(o.value) /\ view.error = Undefined
            ELSE view.error = Some(o.error.msg)

\* C39: the standalone withRetry of the object-literal usdaService invokes fn
\* at most PROXY_RETRIES times, and when every attempt has failed it has
\* invoked the progress callback PROXY_RETRIES - 1 times (before each retry,
\* never after the last failed attempt), has paused PROXY_RETRIES - 1 times
\* (between attempts only), and throws the last error.
C39_StandaloneRetryDiscipline ==
    \A r \in Req :
        LET q == req[r]
        IN  q.op = "proxyDetails" =>
                /\ q.calls <= PROXY_RETRIES
                /\ q.pauses <= PROXY_RETRIES - 1
                /\ Len(q.retryArgs) <= PROXY_RETRIES - 1
                /\ (q.pc = "done" /\ q.lastStage = "proxy"
                        /\ IsDefined(callProxy(The(q.lastRes), q.calls).thrown)) =>
                      /\ q.calls = PROXY_RETRIES
                      /\ q.pauses = PROXY_RETRIES - 1
                      /\ (q.onRetry => q.retryArgs = <<1, 2>>)
                      /\ q.outcome =
                           Some(Thrown(The(callProxy(The(q.lastRes), q.calls).thrown)))

====
